---- MODULE Spec2Model ----
(***************************************************************************)
(* State-machine model of the isometric city-builder scene (CityBuilder)   *)
(* and of the window-level asset functions that mutate it.                 *)
(*                                                                         *)
(* Conventions.  World coordinates and grid coordinates passed to          *)
(* gridToIso are held doubled (fixed point, one binary digit), because the *)
(* centre of an even footprint lies on a half cell.  A cityMap key         *)
(* "x,y,layer" is the tuple <<x, y, layer>>.  An optional field            *)
(* (footprint?, origin?) is <<>> when undefined and <<v>> when set.        *)
(* Origins are held in hundredths (0.5 is 50).  A JavaScript Map is a      *)
(* sequence of entries in insertion order.                                 *)
(***************************************************************************)
EXTENDS Integers, Sequences, FiniteSets, TLC

VARIABLES
    gridSize,             \* CityBuilder.gridSize
    originOffsetX,        \* CityBuilder.originOffsetX
    originOffsetY,        \* CityBuilder.originOffsetY
    cityMap,              \* CityBuilder.cityMap, entries in insertion order
    sprites,              \* live drawables of the scene: id -> image object
    assetSets,            \* CityBuilder.assetSets, in insertion order
    textures,             \* the texture manager: textureKey -> texture
    selectedAssetSetId,   \* CityBuilder.selectedAssetSetId
    selectedSpriteIndex,  \* CityBuilder.selectedSpriteIndex (0-based)
    currentLayer,         \* CityBuilder.currentLayer
    hoverSprite,          \* CityBuilder.hoverSprite: 0 (null) or a drawable id
    lastHover,            \* <<lastHoverGridX, lastHoverGridY>>
    autoSaveTimeout,      \* CityBuilder.autoSaveTimeout: 0 (null) or a timer id
    timers,               \* pending window timers
    storage,              \* the auto-save slot of localStorage
    tasks,                \* image decodes in flight, with their continuations
    file,                 \* the document of the last export (downloaded file)
    hoverGraphics,        \* cells highlighted by CityBuilder.hoverGraphics
    last,                 \* the last call dispatched and what it returned
    nops                  \* number of calls dispatched so far

vars == <<gridSize, originOffsetX, originOffsetY, cityMap, sprites, assetSets,
          textures, selectedAssetSetId, selectedSpriteIndex, currentLayer,
          hoverSprite, lastHover, autoSaveTimeout, timers, storage, tasks,
          file, hoverGraphics, last, nops>>

(***************************************************************************)
(* Bounds of the model.                                                    *)
(***************************************************************************)
InitGridSize == 2
MaxOps == 4

(***************************************************************************)
(* Program constants.                                                      *)
(***************************************************************************)
tileWidth == 132
tileHeight == 66
InitOriginOffsetY == 200
LayerOffset == 30
MaxLayer == 10
DepthPerCell == 100
DepthPerLayer == 1000
HoverDepth == 10000

None == <<>>
Some(v) == <<v>>

Max(a, b) == IF a >= b THEN a ELSE b
Min(a, b) == IF a <= b THEN a ELSE b

(***************************************************************************)
(* JavaScript Map over a sequence of entries, each carrying its key.       *)
(***************************************************************************)
MapHas(m, k) == \E i \in 1..Len(m) : m[i].key = k
MapGet(m, k) == m[CHOOSE i \in 1..Len(m) : m[i].key = k]
MapSet(m, k, v) ==
    IF MapHas(m, k)
    THEN [i \in 1..Len(m) |-> IF m[i].key = k THEN v ELSE m[i]]
    ELSE Append(m, v)
MapDelete(m, k) == SelectSeq(m, LAMBDA e : e.key # k)
MapKeys(m) == {m[i].key : i \in 1..Len(m)}

(***************************************************************************)
(* Isometric transform.  Arguments and results of gridToIso are doubled;   *)
(* isoToGrid takes a doubled world point and returns a whole cell.         *)
(***************************************************************************)
\* the projection for a given origin offset
IsoAt(gridX2, gridY2, offX, offY) ==
    [x |-> (gridX2 - gridY2) * (tileWidth \div 2) + 2 * offX,
     y |-> (gridX2 + gridY2) * (tileHeight \div 2) + 2 * offY]

gridToIso(gridX2, gridY2) == IsoAt(gridX2, gridY2, originOffsetX, originOffsetY)

\* a slip in the inverse: the vertical origin offset is not taken off
isoToGrid_NoOffsetY(isoX2, isoY2) ==
    LET adjustedX2 == isoX2 - 2 * originOffsetX
        adjustedY2 == isoY2
    IN  [gridX |-> (adjustedX2 * tileHeight + adjustedY2 * tileWidth) \div (2 * tileWidth * tileHeight),
         gridY |-> (adjustedY2 * tileWidth - adjustedX2 * tileHeight) \div (2 * tileWidth * tileHeight)]

isoToGrid(isoX2, isoY2) ==
    LET adjustedX2 == isoX2 - 2 * originOffsetX
        adjustedY2 == isoY2 - 2 * originOffsetY
    IN  [gridX |-> (adjustedX2 * tileHeight + adjustedY2 * tileWidth)
                       \div (2 * tileWidth * tileHeight),
         gridY |-> (adjustedY2 * tileWidth - adjustedX2 * tileHeight)
                       \div (2 * tileWidth * tileHeight)]

(***************************************************************************)
(* The asset sets the scene starts with: one built-in sheet and one custom *)
(* set restored from a previous session.                                   *)
(***************************************************************************)
Frame(name, x, y, w, h, fp, org) ==
    [name |-> name, x |-> x, y |-> y, width |-> w, height |-> h,
     footprint |-> fp, origin |-> org]

FP(w, h) == [width |-> w, height |-> h]
Org(x, y) == [x |-> x, y |-> y]

TilesSprites ==
    << Frame("road", 0, 0, 4, 2, None, None),
       Frame("tower", 4, 0, 4, 6, Some(FP(2, 2)), Some(Org(50, 85))) >>

CustomSprites ==
    << Frame("barn", 0, 0, 4, 3, Some(FP(2, 1)), Some(Org(50, 100))),
       Frame("wall", 0, 3, 2, 4, Some(FP(1, 2)), None) >>

Image(w, h) == [ok |-> TRUE, width |-> w, height |-> h]
BrokenImage == [ok |-> FALSE, width |-> 0, height |-> 0]

TextureKeyOf(id) == "texture_" \o id

\* oid is the identity of the asset set object: callbacks keep a reference to
\* the object they were started with
AssetSet(oid, id, sprs, custom, url) ==
    [key |-> id, oid |-> oid, id |-> id, textureKey |-> TextureKeyOf(id),
     sprites |-> sprs, isCustom |-> custom, imageDataUrl |-> url]

FrameRect(s) ==
    [name |-> s.name, x |-> s.x, y |-> s.y, width |-> s.width,
     height |-> s.height]

\* texture.add(name, 0, x, y, w, h) for each sprite: a name the texture
\* already has is not added again
AddFrames(t, sprs) ==
    LET have == {f.name : f \in t.frames}
        fresh == {j \in 1..Len(sprs) :
                     /\ sprs[j].name \notin have
                     /\ \A k \in 1..(j - 1) : sprs[k].name # sprs[j].name}
    IN  [t EXCEPT !.frames = @ \cup {FrameRect(sprs[j]) : j \in fresh}]

Texture(img, sprs) == AddFrames([image |-> img, frames |-> {}], sprs)

\* textures.get of a key that does not exist answers the __MISSING texture
MissingTexture == [image |-> Image(32, 32), frames |-> {}]
TexGet(tx, key) == IF key \in DOMAIN tx THEN tx[key] ELSE MissingTexture

SetTexture(tx, key, t) == [k \in DOMAIN tx \cup {key} |-> IF k = key THEN t ELSE tx[k]]
RemoveTexture(tx, key) == [k \in DOMAIN tx \ {key} |-> tx[k]]

(***************************************************************************)
(* Drawables (Phaser images on the display list).                          *)
(***************************************************************************)
Drawable(x, y, textureKey, frame, origin, depth) ==
    [x |-> x, y |-> y, textureKey |-> textureKey, frame |-> frame,
     origin |-> origin, depth |-> depth, visible |-> TRUE]

Destroy(sp, id) == [j \in DOMAIN sp \ {id} |-> sp[j]]

AddImage(sp, id, d) == [j \in DOMAIN sp \cup {id} |-> IF j = id THEN d ELSE sp[j]]

\* An object identity no live reference holds.
NewId(sp, m) ==
    LET used == DOMAIN sp \cup {m[i].sprite : i \in 1..Len(m)}
                    \cup {hoverSprite}
    IN  CHOOSE i \in 1..(Cardinality(used) + 1) : i \notin used

(***************************************************************************)
(* Footprint cells in the order of the nested loops (fx outer, fy inner).  *)
(***************************************************************************)
FootprintCells(gridX, gridY, footprint) ==
    [i \in 1..(footprint.width * footprint.height) |->
        <<gridX + ((i - 1) \div footprint.height),
          gridY + ((i - 1) % footprint.height)>>]

DefaultFootprint == FP(1, 1)
DefaultOrigin == Org(50, 50)

OrElse(opt, dflt) == IF opt = None THEN dflt ELSE opt[1]

PlacedTile(key, sprite, tileName, textureKey, layer, footprint, origin, isAnchor, anchorKey) ==
    [key |-> key, sprite |-> sprite, tileName |-> tileName,
     textureKey |-> textureKey, layer |-> layer, footprint |-> footprint,
     origin |-> origin, isAnchor |-> isAnchor, anchorKey |-> anchorKey]

(***************************************************************************)
(* scheduleAutoSave: clear the pending timer, start a new one.             *)
(***************************************************************************)
\* a timer id no pending timer has
NewTimerId(ts) ==
    LET used == {t.id : t \in ts}
    IN  CHOOSE i \in 1..(Cardinality(used) + 1) : i \notin used

\* a slip in the debounce: the pending timer is not cleared
scheduleAutoSave_NoClear(ts) ==
    LET id == NewTimerId(ts)
    IN  [timers |-> ts \cup {[id |-> id, kind |-> "autoSave", arg |-> ""]},
         autoSaveTimeout |-> id]

scheduleAutoSave(ts) ==
    LET cleared == IF autoSaveTimeout # 0
                   THEN {t \in ts : t.id # autoSaveTimeout}
                   ELSE ts
        id == NewTimerId(cleared)
    IN  [timers |-> cleared \cup {[id |-> id, kind |-> "autoSave", arg |-> ""]},
         autoSaveTimeout |-> id]

(***************************************************************************)
(* Init: the scene after create(), with an empty map.                      *)
(***************************************************************************)
TilesImage == Image(8, 6)
CustomImage == Image(4, 7)

InitialAssetSets ==
    << AssetSet(1, "tiles", TilesSprites, FALSE, None),
       AssetSet(2, "c1", CustomSprites, TRUE, Some(CustomImage)) >>

\* the constructor and create() for a configured grid size
SceneCreated(size) ==
    /\ gridSize = size
    /\ originOffsetX = (size * tileWidth) \div 2
    /\ originOffsetY = InitOriginOffsetY
    /\ cityMap = <<>>
    /\ sprites = <<>>
    /\ assetSets = InitialAssetSets
    /\ textures = [k \in {"texture_tiles", "texture_c1"} |->
                     IF k = "texture_tiles"
                     THEN Texture(TilesImage, TilesSprites)
                     ELSE Texture(CustomImage, CustomSprites)]
    /\ selectedAssetSetId = "tiles"
    /\ selectedSpriteIndex = 0
    /\ currentLayer = 0
    /\ hoverSprite = 0
    /\ lastHover = <<-1, -1>>
    /\ autoSaveTimeout = 0
    /\ timers = {}
    /\ storage = None
    /\ tasks = <<>>
    /\ file = None
    /\ hoverGraphics = {}

Init ==
    /\ SceneCreated(InitGridSize)
    /\ last = [op |-> "create"]
    /\ nops = 0

(***************************************************************************)
(* placeTile(pointer): the pointer's world point is (isoX2, isoY2).        *)
(***************************************************************************)
InGrid(gridX, gridY) ==
    gridX >= 0 /\ gridX < gridSize /\ gridY >= 0 /\ gridY < gridSize

\* the selected sprite data: assetSet?.sprites[selectedSpriteIndex]
SelectedSprite ==
    IF MapHas(assetSets, selectedAssetSetId)
       /\ selectedSpriteIndex >= 0
       /\ selectedSpriteIndex < Len(MapGet(assetSets, selectedAssetSetId).sprites)
    THEN Some(MapGet(assetSets, selectedAssetSetId).sprites[selectedSpriteIndex + 1])
    ELSE None

\* a slip in the bounds check: only the x axis is tested
FootprintInBounds_XOnly(gridX, gridY, footprint) ==
    \A i \in 1..(footprint.width * footprint.height) :
        LET c == FootprintCells(gridX, gridY, footprint)[i]
        IN  ~(c[1] >= gridSize)

\* "Check if all footprint cells are within bounds"
FootprintInBounds(gridX, gridY, footprint) ==
    \A i \in 1..(footprint.width * footprint.height) :
        LET c == FootprintCells(gridX, gridY, footprint)[i]
        IN  ~(c[1] >= gridSize \/ c[2] >= gridSize)

\* "Clear any existing tiles in the footprint area": cell by cell; reading
\* .destroy of a null sprite throws and leaves the cells cleared so far.
RECURSIVE ClearCells(_, _, _, _, _)
ClearCells(cells, i, m, sp, destroyed) ==
    IF i > Len(cells)
    THEN [map |-> m, sprites |-> sp, threw |-> FALSE, destroyed |-> destroyed]
    ELSE LET key == <<cells[i][1], cells[i][2], currentLayer>>
         IN  IF ~MapHas(m, key)
             THEN ClearCells(cells, i + 1, m, sp, destroyed)
             ELSE LET existing == MapGet(m, key)
                  IN  IF existing.isAnchor /\ existing.sprite = 0
                      THEN [map |-> m, sprites |-> sp, threw |-> TRUE,
                            destroyed |-> destroyed]
                      ELSE IF existing.isAnchor
                      THEN ClearCells(cells, i + 1, MapDelete(m, key),
                                      Destroy(sp, existing.sprite),
                                      destroyed \cup
                                        ({existing.sprite} \cap DOMAIN sp))
                      ELSE ClearCells(cells, i + 1, MapDelete(m, key), sp,
                                      destroyed)

\* a slip in the satellite record: the cell's own key stored as anchorKey
RECURSIVE MarkCells_OwnKey(_, _, _, _)
MarkCells_OwnKey(cells, i, m, anchor) ==
    IF i > Len(cells) THEN m
    ELSE LET key == <<cells[i][1], cells[i][2], anchor.layer>>
         IN  MarkCells_OwnKey(cells, i + 1,
                 MapSet(m, key,
                     PlacedTile(key, 0, anchor.tileName, anchor.textureKey,
                                anchor.layer, anchor.footprint, anchor.origin,
                                FALSE, Some(key))),
                 anchor)

\* "Mark all other footprint cells (non-anchor)"
RECURSIVE MarkCells(_, _, _, _)
MarkCells(cells, i, m, anchor) ==
    IF i > Len(cells) THEN m
    ELSE LET key == <<cells[i][1], cells[i][2], anchor.layer>>
         IN  MarkCells(cells, i + 1,
                 MapSet(m, key,
                     PlacedTile(key, 0, anchor.tileName, anchor.textureKey,
                                anchor.layer, anchor.footprint, anchor.origin,
                                FALSE, Some(anchor.key))),
                 anchor)

\* every dispatched call is counted; Ready bounds the length of a run
Ready == nops < MaxOps

Call(rec) ==
    /\ nops' = nops + 1
    /\ last' = rec

\* a callback (image decoded, timer fired) is not a call
Done(rec) ==
    /\ last' = rec
    /\ UNCHANGED nops

\* what an asynchronous operation found when it was called
Snapshot ==
    [cityMap |-> cityMap, sprites |-> sprites, assetSets |-> assetSets,
     textures |-> textures, originOffsetX |-> originOffsetX,
     originOffsetY |-> originOffsetY,
     selectedAssetSetId |-> selectedAssetSetId,
     selectedSpriteIndex |-> selectedSpriteIndex, hoverSprite |-> hoverSprite,
     tasks |-> tasks, nops |-> nops]

PlaceResult(ret, gridPos, footprint, destroyed, created) ==
    [op |-> "place", ret |-> ret, x |-> gridPos.gridX, y |-> gridPos.gridY,
     layer |-> currentLayer, footprint |-> footprint,
     destroyed |-> destroyed, created |-> created]

placeTile(isoX2, isoY2) ==
    LET gridPos == isoToGrid(isoX2, isoY2)
        spriteData == SelectedSprite
    IN
    IF ~InGrid(gridPos.gridX, gridPos.gridY) \/ spriteData = None
    THEN /\ Call(PlaceResult("rejected", gridPos, FP(0, 0), {}, {}))
         /\ UNCHANGED <<gridSize, originOffsetX, originOffsetY, cityMap,
                        sprites, assetSets, textures, selectedAssetSetId,
                        selectedSpriteIndex, currentLayer, hoverSprite,
                        lastHover, autoSaveTimeout, timers, storage, tasks, file,
                        hoverGraphics>>
    ELSE
    LET assetSet == MapGet(assetSets, selectedAssetSetId)
        footprint == OrElse(spriteData[1].footprint, DefaultFootprint)
        origin == OrElse(spriteData[1].origin, DefaultOrigin)
        textureKey == assetSet.textureKey
        tileName == spriteData[1].name
        cells == FootprintCells(gridPos.gridX, gridPos.gridY, footprint)
    IN
    IF ~FootprintInBounds(gridPos.gridX, gridPos.gridY, footprint)
    THEN /\ Call(PlaceResult("rejected", gridPos, footprint, {}, {}))
         /\ UNCHANGED <<gridSize, originOffsetX, originOffsetY, cityMap,
                        sprites, assetSets, textures, selectedAssetSetId,
                        selectedSpriteIndex, currentLayer, hoverSprite,
                        lastHover, autoSaveTimeout, timers, storage, tasks, file,
                        hoverGraphics>>
    ELSE
    LET cleared == ClearCells(cells, 1, cityMap, sprites, {})
    IN
    IF cleared.threw
    THEN /\ Call(PlaceResult("threw", gridPos, footprint, cleared.destroyed, {}))
         /\ cityMap' = cleared.map
         /\ sprites' = cleared.sprites
         /\ UNCHANGED <<gridSize, originOffsetX, originOffsetY, assetSets,
                        textures, selectedAssetSetId, selectedSpriteIndex,
                        currentLayer, hoverSprite, lastHover, autoSaveTimeout,
                        timers, storage, tasks, file,
                        hoverGraphics>>
    ELSE
    LET centerX2 == 2 * gridPos.gridX + (footprint.width - 1)
        centerY2 == 2 * gridPos.gridY + (footprint.height - 1)
        isoPos == gridToIso(centerX2, centerY2)
        yOffset == currentLayer * LayerOffset
        depth == ((centerX2 + centerY2) * DepthPerCell) \div 2
                     + currentLayer * DepthPerLayer
        sprite == NewId(cleared.sprites, cleared.map)
        anchorKey == <<gridPos.gridX, gridPos.gridY, currentLayer>>
        anchor == PlacedTile(anchorKey, sprite, tileName, textureKey,
                             currentLayer, footprint, origin, TRUE, None)
        saved == scheduleAutoSave(timers)
    IN  /\ Call(PlaceResult("placed", gridPos, footprint, cleared.destroyed,
                            {sprite}))
        /\ sprites' = AddImage(cleared.sprites, sprite,
                          Drawable(isoPos.x, isoPos.y - 2 * yOffset, textureKey,
                                   tileName, origin, depth))
        /\ cityMap' = MarkCells(Tail(cells), 1,
                                MapSet(cleared.map, anchorKey, anchor), anchor)
        /\ timers' = saved.timers
        /\ autoSaveTimeout' = saved.autoSaveTimeout
        /\ UNCHANGED <<gridSize, originOffsetX, originOffsetY, assetSets,
                       textures, selectedAssetSetId, selectedSpriteIndex,
                       currentLayer, hoverSprite, lastHover, storage, tasks, file,
                        hoverGraphics>>

(***************************************************************************)
(* removeTile(pointer)                                                     *)
(***************************************************************************)
\* a slip in the removal loop: only the first cell of the footprint goes
DeleteCells_FirstOnly(cells, i, layer, m) ==
    IF Len(cells) = 0 THEN m
    ELSE MapDelete(m, <<cells[1][1], cells[1][2], layer>>)

\* "Remove all footprint cells"
RECURSIVE DeleteCells(_, _, _, _)
DeleteCells(cells, i, layer, m) ==
    IF i > Len(cells) THEN m
    ELSE DeleteCells(cells, i + 1, layer,
                     MapDelete(m, <<cells[i][1], cells[i][2], layer>>))

RemoveResult(ret, gridPos, anchorKey, destroyed, deleted) ==
    [op |-> "remove", ret |-> ret, x |-> gridPos.gridX, y |-> gridPos.gridY,
     layer |-> currentLayer, anchorKey |-> anchorKey, destroyed |-> destroyed,
     deleted |-> deleted]

\* a slip in the anchor lookup: the clicked cell is taken for the anchor
AnchorKeyOf_Clicked(tileData, key) == key

\* "Find the anchor cell"
AnchorKeyOf(tileData, key) ==
    IF ~tileData.isAnchor /\ tileData.anchorKey # None
    THEN tileData.anchorKey[1] ELSE key

removeTile(isoX2, isoY2) ==
    LET gridPos == isoToGrid(isoX2, isoY2)
        key == <<gridPos.gridX, gridPos.gridY, currentLayer>>
    IN
    IF ~InGrid(gridPos.gridX, gridPos.gridY) \/ ~MapHas(cityMap, key)
    THEN /\ Call(RemoveResult("noop", gridPos, None, {}, 0))
         /\ UNCHANGED <<gridSize, originOffsetX, originOffsetY, cityMap,
                        sprites, assetSets, textures, selectedAssetSetId,
                        selectedSpriteIndex, currentLayer, hoverSprite,
                        lastHover, autoSaveTimeout, timers, storage, tasks, file,
                        hoverGraphics>>
    ELSE
    LET tileData == MapGet(cityMap, key)
        anchorKey == AnchorKeyOf(tileData, key)
    IN
    IF ~MapHas(cityMap, anchorKey)
    THEN /\ Call(RemoveResult("noop", gridPos, Some(anchorKey), {}, 0))
         /\ UNCHANGED <<gridSize, originOffsetX, originOffsetY, cityMap,
                        sprites, assetSets, textures, selectedAssetSetId,
                        selectedSpriteIndex, currentLayer, hoverSprite,
                        lastHover, autoSaveTimeout, timers, storage, tasks, file,
                        hoverGraphics>>
    ELSE
    LET anchorData == MapGet(cityMap, anchorKey)
        footprint == anchorData.footprint
        cells == FootprintCells(anchorKey[1], anchorKey[2], footprint)
        destroyed == IF anchorData.sprite # 0
                     THEN {anchorData.sprite} \cap DOMAIN sprites ELSE {}
        remaining == DeleteCells(cells, 1, anchorKey[3], cityMap)
        saved == scheduleAutoSave(timers)
    IN  /\ Call(RemoveResult("removed", gridPos, Some(anchorKey), destroyed,
                             Len(cityMap) - Len(remaining)))
        /\ cityMap' = remaining
        /\ sprites' = IF anchorData.sprite # 0
                      THEN Destroy(sprites, anchorData.sprite) ELSE sprites
        /\ timers' = saved.timers
        /\ autoSaveTimeout' = saved.autoSaveTimeout
        /\ UNCHANGED <<gridSize, originOffsetX, originOffsetY, assetSets,
                       textures, selectedAssetSetId, selectedSpriteIndex,
                       currentLayer, hoverSprite, lastHover, storage, tasks, file,
                        hoverGraphics>>

(***************************************************************************)
(* setSelectedTile(index, assetSetId?) and setLayer(layer)                 *)
(***************************************************************************)
setSelectedTile(index, assetSetId) ==
    /\ Call([op |-> "setSelectedTile", index |-> index, id |-> assetSetId])
    /\ selectedSpriteIndex' = index
    /\ selectedAssetSetId' =
           IF assetSetId # "" /\ MapHas(assetSets, assetSetId)
           THEN assetSetId ELSE selectedAssetSetId
    /\ lastHover' = <<-1, -1>>
    /\ UNCHANGED <<gridSize, originOffsetX, originOffsetY, cityMap, sprites,
                   assetSets, textures, currentLayer, hoverSprite,
                   autoSaveTimeout, timers, storage, tasks, file,
                        hoverGraphics>>

\* a slip in the clamp: the upper limit is not applied
setLayer_NoUpperLimit(layer) ==
    /\ Call([op |-> "setLayer", layer |-> layer])
    /\ currentLayer' = Max(0, layer)
    /\ lastHover' = <<-1, -1>>
    /\ UNCHANGED <<gridSize, originOffsetX, originOffsetY, cityMap, sprites,
                   assetSets, textures, selectedAssetSetId,
                   selectedSpriteIndex, hoverSprite, autoSaveTimeout, timers,
                   storage, tasks, file, hoverGraphics>>
setLayer(layer) ==
    /\ Call([op |-> "setLayer", layer |-> layer])
    /\ currentLayer' = Max(0, Min(layer, MaxLayer))
    /\ lastHover' = <<-1, -1>>
    /\ UNCHANGED <<gridSize, originOffsetX, originOffsetY, cityMap, sprites,
                   assetSets, textures, selectedAssetSetId,
                   selectedSpriteIndex, hoverSprite, autoSaveTimeout, timers,
                   storage, tasks, file,
                        hoverGraphics>>

(***************************************************************************)
(* exportMap / saveToLocalStorage: the map document.                       *)
(***************************************************************************)
\* a slip in the footprint test: both sides must exceed one cell
ExportTile_BothSides(t) ==
    [x |-> t.key[1], y |-> t.key[2], layer |-> t.key[3],
     tileName |-> t.tileName, textureKey |-> t.textureKey,
     footprint |-> IF t.footprint.width > 1 /\ t.footprint.height > 1
                   THEN Some(t.footprint) ELSE None,
     origin |-> IF t.origin.x # 50 \/ t.origin.y # 50
                THEN Some(t.origin) ELSE None]

\* one tile record of an anchor entry; footprint and origin only when they
\* differ from 1x1 and (0.5, 0.5)
ExportTile(t) ==
    [x |-> t.key[1], y |-> t.key[2], layer |-> t.key[3],
     tileName |-> t.tileName, textureKey |-> t.textureKey,
     footprint |-> IF t.footprint.width > 1 \/ t.footprint.height > 1
                   THEN Some(t.footprint) ELSE None,
     origin |-> IF t.origin.x # 50 \/ t.origin.y # 50
                THEN Some(t.origin) ELSE None]

\* a slip in the filter: satellite entries are exported as well
IsAnchorEntry_All(t) == TRUE
IsAnchorEntry(t) == t.isAnchor

ExportTiles(m) ==
    LET anchors == SelectSeq(m, IsAnchorEntry)
    IN  [i \in 1..Len(anchors) |-> ExportTile(anchors[i])]

IsExportedSet(a) == a.isCustom /\ a.imageDataUrl # None

ExportCustomAssets(sets) ==
    LET custom == SelectSeq(sets, IsExportedSet)
    IN  [i \in 1..Len(custom) |->
            [id |-> custom[i].id, imageDataUrl |-> custom[i].imageDataUrl[1],
             sprites |-> custom[i].sprites]]

MapDocument(m, sets, size, offX, offY) ==
    [version |-> "4.0", gridSize |-> size,
     originOffsetX |-> Some(offX), originOffsetY |-> Some(offY),
     tileWidth |-> tileWidth, tileHeight |-> tileHeight,
     customAssets |-> ExportCustomAssets(sets), tiles |-> ExportTiles(m)]

exportMap ==
    /\ Call([op |-> "exportMap"])
    /\ file' = Some(MapDocument(cityMap, assetSets, gridSize, originOffsetX,
                                originOffsetY))
    /\ UNCHANGED <<gridSize, originOffsetX, originOffsetY, cityMap, sprites,
                   assetSets, textures, selectedAssetSetId,
                   selectedSpriteIndex, currentLayer, hoverSprite, lastHover,
                   autoSaveTimeout, timers, storage, tasks, hoverGraphics>>

(***************************************************************************)
(* loadMap(jsonData)                                                       *)
(***************************************************************************)
KnownTextureKeys ==
    {TextureKeyOf(id) : id \in {"tiles", "details", "buildings", "floors", "c1", "c2", "c3"}}

\* "Handle legacy textureKey format"
LegacyTextureKey(textureKey) ==
    IF textureKey = "cityTiles" THEN "texture_tiles"
    ELSE IF textureKey = "cityDetails" THEN "texture_details"
    ELSE IF textureKey = "buildingTiles" THEN "texture_buildings"
    ELSE IF textureKey \notin KnownTextureKeys THEN TextureKeyOf(textureKey)
    ELSE textureKey

\* "Load tiles from JSON": no collision checks, later records overwrite
RECURSIVE LoadTiles(_, _, _, _, _, _)
LoadTiles(tiles, i, m, sp, offX, offY) ==
    IF i > Len(tiles) THEN [map |-> m, sprites |-> sp]
    ELSE
    LET tile == tiles[i]
        footprint == OrElse(tile.footprint, DefaultFootprint)
        origin == OrElse(tile.origin, DefaultOrigin)
        layer == tile.layer
        textureKey == LegacyTextureKey(tile.textureKey)
        centerX2 == 2 * tile.x + (footprint.width - 1)
        centerY2 == 2 * tile.y + (footprint.height - 1)
        isoPos == IsoAt(centerX2, centerY2, offX, offY)
        yOffset == layer * LayerOffset
        depth == ((centerX2 + centerY2) * DepthPerCell) \div 2
                     + layer * DepthPerLayer
        sprite == NewId(sp, m)
        anchorKey == <<tile.x, tile.y, layer>>
        anchor == PlacedTile(anchorKey, sprite, tile.tileName, textureKey,
                             layer, footprint, origin, TRUE, None)
        cells == FootprintCells(tile.x, tile.y, footprint)
    IN  LoadTiles(tiles, i + 1,
                  MarkCells(Tail(cells), 1, MapSet(m, anchorKey, anchor), anchor),
                  AddImage(sp, sprite,
                           Drawable(isoPos.x, isoPos.y - 2 * yOffset, textureKey,
                                    tile.tileName, origin, depth)),
                  offX, offY)

\* "Clear existing map"
RECURSIVE DestroyAll(_, _, _)
DestroyAll(m, i, sp) ==
    IF i > Len(m) THEN sp
    ELSE DestroyAll(m, i + 1, IF m[i].sprite # 0 THEN Destroy(sp, m[i].sprite) ELSE sp)

\* the end of loadMap once every custom asset is registered: the tiles are
\* set on the map as it is then, which was cleared before the first await;
\* then saveToLocalStorage
LoadMapFinish(doc, m, sets, sp, offX, offY) ==
    LET loaded == LoadTiles(doc.tiles, 1, m, sp, offX, offY)
    IN  /\ cityMap' = loaded.map
        /\ sprites' = loaded.sprites
        /\ storage' = Some(MapDocument(loaded.map, sets, gridSize, offX, offY))

\* a slip in the loop: the decode of the last custom asset is started at
\* once
LoadMapTask_Last(doc, k, before) ==
    [kind |-> "loadMapAsset", oid |-> 0, doc |-> doc,
     index |-> Len(doc.customAssets),
     image |-> doc.customAssets[Len(doc.customAssets)].imageDataUrl,
     before |-> before]

LoadMapTask(doc, k, before) ==
    [kind |-> "loadMapAsset", oid |-> 0, doc |-> doc, index |-> k,
     image |-> doc.customAssets[k].imageDataUrl, before |-> before]

LoadMapResult(ret, event, doc, before) ==
    [op |-> "loadMap", ret |-> ret, event |-> event, doc |-> doc,
     before |-> before]

\* "Restore origin offset from save data, or compute from gridSize for
\* legacy maps"
RestoredOffsetX(doc) ==
    IF doc.originOffsetX # None THEN doc.originOffsetX[1]
    ELSE IF doc.gridSize # 0 THEN (doc.gridSize * tileWidth) \div 2
    ELSE originOffsetX

RestoredOffsetY(doc) ==
    IF doc.originOffsetX # None
    THEN OrElse(doc.originOffsetY, InitOriginOffsetY)
    ELSE IF doc.gridSize # 0 THEN InitOriginOffsetY
    ELSE originOffsetY

loadMap(doc) ==
    LET cleared == DestroyAll(cityMap, 1, sprites)
        offX == RestoredOffsetX(doc)
        offY == RestoredOffsetY(doc)
    IN  /\ originOffsetX' = offX
        /\ originOffsetY' = offY
        /\ IF Len(doc.customAssets) > 0
           THEN /\ Call(LoadMapResult("awaiting", "call", doc, Snapshot))
                /\ cityMap' = <<>>
                /\ sprites' = cleared
                /\ tasks' = Append(tasks, LoadMapTask(doc, 1, Snapshot))
                /\ UNCHANGED storage
           ELSE /\ Call(LoadMapResult("loaded", "call", doc, Snapshot))
                /\ LoadMapFinish(doc, <<>>, assetSets, cleared, offX, offY)
                /\ UNCHANGED tasks
        /\ UNCHANGED <<gridSize, assetSets, textures, selectedAssetSetId,
                       selectedSpriteIndex, currentLayer, hoverSprite,
                       lastHover, autoSaveTimeout, timers, file, hoverGraphics>>

RemoveAt(seq, i) == [j \in 1..(Len(seq) - 1) |-> IF j < i THEN seq[j] ELSE seq[j + 1]]

\* an object identity no registered set and no pending callback holds
NewOid(sets, ts) ==
    LET used == {sets[i].oid : i \in 1..Len(sets)} \cup {ts[i].oid : i \in 1..Len(ts)}
    IN  CHOOSE i \in 1..(Cardinality(used) + 1) : i \notin used

\* img.onload of a custom asset of loadMap, followed by the continuation of
\* the awaiting loop: the next asset's decode, or the tiles
loadMapAssetLoaded(i) ==
    LET task == tasks[i]
        doc == task.doc
        customAsset == doc.customAssets[task.index]
        rest == RemoveAt(tasks, i)
        assetSet == AssetSet(NewOid(assetSets, rest), customAsset.id,
                             customAsset.sprites, TRUE,
                             Some(customAsset.imageDataUrl))
        sets == MapSet(assetSets, customAsset.id, assetSet)
    IN  /\ task.kind = "loadMapAsset" /\ task.image.ok
        /\ UNCHANGED <<originOffsetX, originOffsetY>>
        /\ textures' = SetTexture(textures, TextureKeyOf(customAsset.id),
                                  Texture(customAsset.imageDataUrl,
                                          customAsset.sprites))
        /\ assetSets' = sets
        /\ IF task.index < Len(doc.customAssets)
           THEN /\ Done(LoadMapResult("awaiting", "onload", doc, task.before))
                /\ tasks' = Append(rest, LoadMapTask(doc, task.index + 1,
                                                     task.before))
                /\ UNCHANGED <<cityMap, sprites, storage>>
           ELSE /\ Done(LoadMapResult("loaded", "onload", doc, task.before))
                /\ tasks' = rest
                /\ LoadMapFinish(doc, cityMap, sets, sprites, originOffsetX,
                                 originOffsetY)
        /\ UNCHANGED <<gridSize, selectedAssetSetId, selectedSpriteIndex,
                       currentLayer, hoverSprite, lastHover, autoSaveTimeout,
                       timers, file, hoverGraphics>>

\* img.onerror of a custom asset of loadMap: the promise rejects and the
\* catch block of loadMap logs the error
loadMapAssetFailed(i) ==
    LET task == tasks[i]
    IN  /\ task.kind = "loadMapAsset" /\ ~task.image.ok
        /\ Done(LoadMapResult("failed", "onerror", task.doc, task.before))
        /\ tasks' = RemoveAt(tasks, i)
        /\ UNCHANGED <<gridSize, originOffsetX, originOffsetY, cityMap, sprites,
                       assetSets, textures, selectedAssetSetId,
                       selectedSpriteIndex, currentLayer, hoverSprite,
                       lastHover, autoSaveTimeout, timers, storage, file,
                       hoverGraphics>>

(***************************************************************************)
(* updateHoverPreview(pointer)                                             *)
(***************************************************************************)
HoverResult(gridPos) == [op |-> "hover", x |-> gridPos.gridX, y |-> gridPos.gridY]

updateHoverPreview(isoX2, isoY2) ==
    LET gridPos == isoToGrid(isoX2, isoY2)
        spriteData == SelectedSprite
        footprint == IF spriteData = None THEN DefaultFootprint
                     ELSE OrElse(spriteData[1].footprint, DefaultFootprint)
        cells == FootprintCells(gridPos.gridX, gridPos.gridY, footprint)
        centerX2 == 2 * gridPos.gridX + (footprint.width - 1)
        centerY2 == 2 * gridPos.gridY + (footprint.height - 1)
        isoPos == gridToIso(centerX2, centerY2)
        y == isoPos.y - 2 * currentLayer * LayerOffset
    IN
    /\ Call(HoverResult(gridPos))
    /\ IF gridPos.gridX = lastHover[1] /\ gridPos.gridY = lastHover[2]
       THEN UNCHANGED <<lastHover, hoverGraphics, hoverSprite, sprites>>
       ELSE
       /\ lastHover' = <<gridPos.gridX, gridPos.gridY>>
       /\ IF InGrid(gridPos.gridX, gridPos.gridY)
          THEN /\ hoverGraphics' =
                     {cells[i] : i \in {j \in 1..Len(cells) :
                          ~(cells[j][1] >= gridSize \/ cells[j][2] >= gridSize)}}
               /\ IF spriteData = None
                  THEN UNCHANGED <<hoverSprite, sprites>>
                  ELSE LET textureKey == MapGet(assetSets, selectedAssetSetId).textureKey
                           tileName == spriteData[1].name
                           origin == OrElse(spriteData[1].origin, DefaultOrigin)
                       IN  IF hoverSprite # 0
                           THEN /\ sprites' = [sprites EXCEPT ![hoverSprite] =
                                      [@ EXCEPT !.textureKey = textureKey,
                                                !.frame = tileName,
                                                !.origin = origin,
                                                !.x = isoPos.x, !.y = y,
                                                !.visible = TRUE]]
                                /\ UNCHANGED hoverSprite
                           ELSE LET id == NewId(sprites, cityMap)
                                IN  /\ hoverSprite' = id
                                    /\ sprites' = AddImage(sprites, id,
                                           Drawable(isoPos.x, y, textureKey,
                                                    tileName, origin, HoverDepth))
          ELSE /\ hoverGraphics' = {}
               /\ UNCHANGED hoverSprite
               /\ sprites' = IF hoverSprite # 0
                             THEN [sprites EXCEPT ![hoverSprite].visible = FALSE]
                             ELSE sprites
    /\ UNCHANGED <<gridSize, originOffsetX, originOffsetY, cityMap, assetSets,
                   textures, selectedAssetSetId, selectedSpriteIndex,
                   currentLayer, autoSaveTimeout, timers, storage, tasks, file>>

(***************************************************************************)
(* Timers: the debounced auto-save and the delayed texture removal.        *)
(***************************************************************************)
autoSaveFired ==
    \E t \in timers :
        /\ t.kind = "autoSave"
        /\ timers' = timers \ {t}
        /\ storage' = Some(MapDocument(cityMap, assetSets, gridSize,
                                       originOffsetX, originOffsetY))
        /\ autoSaveTimeout' = 0
        /\ UNCHANGED <<gridSize, originOffsetX, originOffsetY, cityMap, sprites,
                       assetSets, textures, selectedAssetSetId,
                       selectedSpriteIndex, currentLayer, hoverSprite,
                       lastHover, tasks, file, hoverGraphics, last, nops>>

removeTextureFired ==
    \E t \in timers :
        /\ t.kind = "removeTexture"
        /\ timers' = timers \ {t}
        /\ textures' = RemoveTexture(textures, t.arg)
        /\ UNCHANGED <<gridSize, originOffsetX, originOffsetY, cityMap, sprites,
                       assetSets, selectedAssetSetId, selectedSpriteIndex,
                       currentLayer, hoverSprite, lastHover, autoSaveTimeout,
                       storage, tasks, file, hoverGraphics, last, nops>>

(***************************************************************************)
(* window.phaserAddCustomAsset(id, name, imageDataUrl, sprites)            *)
(***************************************************************************)
AssetResult(op, ret, event, id, before) ==
    [op |-> op, ret |-> ret, event |-> event, id |-> id, before |-> before]

phaserAddCustomAsset(id, imageDataUrl, sprs) ==
    /\ Call(AssetResult("addCustomAsset", "awaiting", "call", id, Snapshot))
    /\ tasks' = Append(tasks, [kind |-> "addCustomAsset", oid |-> 0, id |-> id,
                               image |-> imageDataUrl, sprites |-> sprs,
                               before |-> Snapshot])
    /\ UNCHANGED <<gridSize, originOffsetX, originOffsetY, cityMap, sprites,
                   assetSets, textures, selectedAssetSetId,
                   selectedSpriteIndex, currentLayer, hoverSprite, lastHover,
                   autoSaveTimeout, timers, storage, file, hoverGraphics>>

addCustomAssetLoaded(i) ==
    LET task == tasks[i]
        rest == RemoveAt(tasks, i)
        assetSet == AssetSet(NewOid(assetSets, rest), task.id, task.sprites,
                             TRUE, Some(task.image))
    IN  /\ task.kind = "addCustomAsset" /\ task.image.ok
        /\ Done(AssetResult("addCustomAsset", "true", "onload", task.id,
                            task.before))
        /\ tasks' = rest
        /\ textures' = SetTexture(textures, TextureKeyOf(task.id),
                                  Texture(task.image, task.sprites))
        /\ assetSets' = MapSet(assetSets, task.id, assetSet)
        /\ UNCHANGED <<gridSize, originOffsetX, originOffsetY, cityMap, sprites,
                       selectedAssetSetId, selectedSpriteIndex, currentLayer,
                       hoverSprite, lastHover, autoSaveTimeout, timers, storage,
                       file, hoverGraphics>>

addCustomAssetFailed(i) ==
    LET task == tasks[i]
    IN  /\ task.kind = "addCustomAsset" /\ ~task.image.ok
        /\ Done(AssetResult("addCustomAsset", "false", "onerror", task.id,
                            task.before))
        /\ tasks' = RemoveAt(tasks, i)
        /\ UNCHANGED <<gridSize, originOffsetX, originOffsetY, cityMap, sprites,
                       assetSets, textures, selectedAssetSetId,
                       selectedSpriteIndex, currentLayer, hoverSprite,
                       lastHover, autoSaveTimeout, timers, storage, file,
                       hoverGraphics>>

(***************************************************************************)
(* Placed sprites of a texture are destroyed before the texture is         *)
(* swapped and created again afterwards.                                   *)
(***************************************************************************)
\* "Temporarily destroy all placed sprites using this texture and store
\* their data"
StoreForRecreation(m, sp, textureKey) ==
    LET idx == {i \in 1..Len(m) : m[i].sprite # 0
                                   /\ m[i].textureKey = textureKey
                                   /\ m[i].isAnchor}
        stored == SelectSeq(m, LAMBDA e : e.sprite # 0
                                           /\ e.textureKey = textureKey
                                           /\ e.isAnchor)
    IN  [list |-> [i \in 1..Len(stored) |->
                      [key |-> stored[i].key, tileName |-> stored[i].tileName,
                       origin |-> stored[i].origin, textureKey |-> textureKey,
                       x |-> sp[stored[i].sprite].x,
                       y |-> sp[stored[i].sprite].y,
                       depth |-> sp[stored[i].sprite].depth]],
         map |-> [i \in 1..Len(m) |->
                     IF i \in idx THEN [m[i] EXCEPT !.sprite = 0] ELSE m[i]],
         sprites |-> [j \in DOMAIN sp \ {m[i].sprite : i \in idx} |-> sp[j]]]

\* a slip in the swap: the stored sprites are not created again
RecreateSprites_None(list, i, m, sp) == [map |-> m, sprites |-> sp]

\* "Recreate all sprites with the new texture"
RECURSIVE RecreateSprites(_, _, _, _)
RecreateSprites(list, i, m, sp) ==
    IF i > Len(list) THEN [map |-> m, sprites |-> sp]
    ELSE LET it == list[i]
             id == NewId(sp, m)
         IN  RecreateSprites(list, i + 1,
                 IF MapHas(m, it.key)
                 THEN MapSet(m, it.key, [MapGet(m, it.key) EXCEPT !.sprite = id])
                 ELSE m,
                 AddImage(sp, id, Drawable(it.x, it.y, it.textureKey,
                                           it.tileName, it.origin, it.depth)))

\* a write through the reference a callback holds: it reaches the registry
\* only while that object is still the registered one
UpdateObject(sets, oid, sprs, url) ==
    [i \in 1..Len(sets) |->
        IF sets[i].oid = oid
        THEN [sets[i] EXCEPT !.sprites = sprs, !.imageDataUrl = url]
        ELSE sets[i]]

\* the sprites of the object a callback holds
ObjectSprites(sets, oid, detached) ==
    IF \E i \in 1..Len(sets) : sets[i].oid = oid
    THEN (CHOOSE e \in {sets[i] : i \in 1..Len(sets)} : e.oid = oid).sprites
    ELSE detached

WithoutHover(sp) == IF hoverSprite # 0 THEN Destroy(sp, hoverSprite) ELSE sp

(***************************************************************************)
(* window.phaserAddSpriteToAsset(assetId, imageDataUrl, sprite)            *)
(***************************************************************************)
phaserAddSpriteToAsset(assetId, imageDataUrl, sprite) ==
    IF ~MapHas(assetSets, assetId)
    THEN /\ Call(AssetResult("appendSprite", "false", "call", assetId, Snapshot))
         /\ UNCHANGED <<gridSize, originOffsetX, originOffsetY, cityMap,
                        sprites, assetSets, textures, selectedAssetSetId,
                        selectedSpriteIndex, currentLayer, hoverSprite,
                        lastHover, autoSaveTimeout, timers, storage, tasks,
                        file, hoverGraphics>>
    ELSE
    LET assetSet == MapGet(assetSets, assetId)
    IN  /\ Call(AssetResult("appendSprite", "awaiting", "call", assetId,
                            Snapshot))
        /\ tasks' = Append(tasks,
               [kind |-> "appendDecode", oid |-> assetSet.oid, id |-> assetId,
                textureKey |-> assetSet.textureKey, sprite |-> sprite,
                image |-> imageDataUrl, sprites |-> assetSet.sprites,
                before |-> Snapshot])
        /\ UNCHANGED <<gridSize, originOffsetX, originOffsetY, cityMap,
                       sprites, assetSets, textures, selectedAssetSetId,
                       selectedSpriteIndex, currentLayer, hoverSprite,
                       lastHover, autoSaveTimeout, timers, storage, file,
                       hoverGraphics>>

\* img.onload: the combined sheet is drawn and decoded in turn
appendSpriteDecoded(i) ==
    LET task == tasks[i]
        existingSource == TexGet(textures, task.textureKey).image
        combined == Image(Max(existingSource.width, task.sprite.width),
                          existingSource.height + task.image.height)
        newSprite == [task.sprite EXCEPT !.x = 0, !.y = existingSource.height,
                                         !.width = task.image.width,
                                         !.height = task.image.height]
    IN  /\ task.kind = "appendDecode" /\ task.image.ok
        /\ Done(AssetResult("appendSprite", "awaiting", "onload", task.id,
                            task.before))
        /\ tasks' = Append(RemoveAt(tasks, i),
               [kind |-> "appendCombined", oid |-> task.oid, id |-> task.id,
                textureKey |-> task.textureKey, sprite |-> newSprite,
                image |-> combined, sprites |-> task.sprites,
                before |-> task.before])
        /\ UNCHANGED <<gridSize, originOffsetX, originOffsetY, cityMap,
                       sprites, assetSets, textures, selectedAssetSetId,
                       selectedSpriteIndex, currentLayer, hoverSprite,
                       lastHover, autoSaveTimeout, timers, storage, file,
                       hoverGraphics>>

appendSpriteFailed(i) ==
    LET task == tasks[i]
    IN  /\ task.kind = "appendDecode" /\ ~task.image.ok
        /\ Done(AssetResult("appendSprite", "false", "onerror", task.id,
                            task.before))
        /\ tasks' = RemoveAt(tasks, i)
        /\ UNCHANGED <<gridSize, originOffsetX, originOffsetY, cityMap,
                       sprites, assetSets, textures, selectedAssetSetId,
                       selectedSpriteIndex, currentLayer, hoverSprite,
                       lastHover, autoSaveTimeout, timers, storage, file,
                       hoverGraphics>>

\* newImg.onload: the texture swap
appendSpriteCombined(i) ==
    LET task == tasks[i]
        stored == StoreForRecreation(cityMap, WithoutHover(sprites),
                                     task.textureKey)
        allSprites == Append(ObjectSprites(assetSets, task.oid, task.sprites),
                             task.sprite)
        recreated == RecreateSprites(stored.list, 1, stored.map, stored.sprites)
    IN  /\ task.kind = "appendCombined"
        /\ Done(AssetResult("appendSprite", "true", "onload", task.id,
                            task.before))
        /\ tasks' = RemoveAt(tasks, i)
        /\ hoverSprite' = 0
        /\ textures' = SetTexture(textures, task.textureKey,
                                  Texture(task.image, allSprites))
        /\ cityMap' = recreated.map
        /\ sprites' = recreated.sprites
        /\ assetSets' = UpdateObject(assetSets, task.oid, allSprites,
                                     Some(task.image))
        /\ lastHover' = <<-1, -1>>
        /\ UNCHANGED <<gridSize, originOffsetX, originOffsetY,
                       selectedAssetSetId, selectedSpriteIndex, currentLayer,
                       autoSaveTimeout, timers, storage, file, hoverGraphics>>

(***************************************************************************)
(* window.phaserRemoveSpriteFromAsset(assetId, spriteIndex)                *)
(***************************************************************************)
\* a slip in the repack: every frame is counted as one pixel high
SumHeights_Count(sprs, n) == n

RECURSIVE SumHeights(_, _)
SumHeights(sprs, n) == IF n = 0 THEN 0 ELSE sprs[n].height + SumHeights(sprs, n - 1)

RECURSIVE MaxWidth(_, _)
MaxWidth(sprs, n) == IF n = 0 THEN 0 ELSE Max(sprs[n].width, MaxWidth(sprs, n - 1))

\* a slip in the repack: the frames keep the y they had in the old sheet
Repack_KeepY(sprs) == [i \in 1..Len(sprs) |-> [sprs[i] EXCEPT !.x = 0]]

\* "Rebuild canvas with remaining sprites packed vertically"
Repack(sprs) ==
    [i \in 1..Len(sprs) |-> [sprs[i] EXCEPT !.x = 0, !.y = SumHeights(sprs, i - 1)]]

RECURSIVE DestroyEntries(_, _, _)
DestroyEntries(m, idx, sp) ==
    IF idx = {} THEN sp
    ELSE LET i == CHOOSE j \in idx : TRUE
         IN  DestroyEntries(m, idx \ {i},
                            IF m[i].sprite # 0 THEN Destroy(sp, m[i].sprite) ELSE sp)

FrameResult(ret, event, id, index, before) ==
    [op |-> "removeFrame", ret |-> ret, event |-> event, id |-> id,
     index |-> index, before |-> before]

phaserRemoveSpriteFromAsset(assetId, spriteIndex) ==
    IF \/ ~MapHas(assetSets, assetId)
       \/ spriteIndex < 0
       \/ spriteIndex >= Len(MapGet(assetSets, assetId).sprites)
    THEN /\ Call(FrameResult("false", "call", assetId, spriteIndex, Snapshot))
         /\ UNCHANGED <<gridSize, originOffsetX, originOffsetY, cityMap,
                        sprites, assetSets, textures, selectedAssetSetId,
                        selectedSpriteIndex, currentLayer, hoverSprite,
                        lastHover, autoSaveTimeout, timers, storage, tasks,
                        file, hoverGraphics>>
    ELSE
    LET assetSet == MapGet(assetSets, assetId)
        textureKey == assetSet.textureKey
        removedSprite == assetSet.sprites[spriteIndex + 1]
        uses == {i \in 1..Len(cityMap) :
                    /\ cityMap[i].textureKey = textureKey
                    /\ cityMap[i].tileName = removedSprite.name}
        sp1 == DestroyEntries(cityMap, uses, WithoutHover(sprites))
        m1 == SelectSeq(cityMap, LAMBDA e : ~(e.textureKey = textureKey
                                              /\ e.tileName = removedSprite.name))
        stored == StoreForRecreation(m1, sp1, textureKey)
        remainingSprites == Repack(RemoveAt(assetSet.sprites, spriteIndex + 1))
        n == Len(remainingSprites)
        canvas == IF n = 0 THEN Image(1, 1)
                  ELSE Image(MaxWidth(remainingSprites, n),
                             SumHeights(remainingSprites, n))
    IN  /\ Call(FrameResult("true", "call", assetId, spriteIndex, Snapshot))
        /\ hoverSprite' = 0
        /\ cityMap' = stored.map
        /\ sprites' = stored.sprites
        /\ assetSets' = MapSet(assetSets, assetId,
                               [assetSet EXCEPT !.sprites = remainingSprites])
        /\ textures' = RemoveTexture(textures, textureKey)
        /\ tasks' = Append(tasks,
               [kind |-> "removeFrameLoad", oid |-> assetSet.oid,
                id |-> assetId, index |-> spriteIndex,
                textureKey |-> textureKey, sprites |-> remainingSprites,
                recreate |-> IF n = 0 THEN <<>> ELSE stored.list,
                image |-> canvas, before |-> Snapshot])
        /\ selectedSpriteIndex' =
               IF selectedAssetSetId = assetId /\ selectedSpriteIndex >= n
               THEN Max(0, n - 1) ELSE selectedSpriteIndex
        /\ UNCHANGED <<gridSize, originOffsetX, originOffsetY,
                       selectedAssetSetId, currentLayer, lastHover,
                       autoSaveTimeout, timers, storage, file, hoverGraphics>>

\* placeholderImg.onload / newImg.onload: textures.addImage answers null for
\* a key that exists
removeFrameLoaded(i) ==
    LET task == tasks[i]
        added == IF task.textureKey \in DOMAIN textures THEN textures
                 ELSE SetTexture(textures, task.textureKey,
                                 [image |-> task.image, frames |-> {}])
        recreated == RecreateSprites(task.recreate, 1, cityMap, sprites)
    IN  /\ task.kind = "removeFrameLoad"
        /\ Done(FrameResult("true", "onload", task.id, task.index, task.before))
        /\ tasks' = RemoveAt(tasks, i)
        /\ textures' = SetTexture(added, task.textureKey,
                           AddFrames(added[task.textureKey], task.sprites))
        /\ cityMap' = recreated.map
        /\ sprites' = recreated.sprites
        /\ assetSets' = UpdateObject(assetSets, task.oid,
                            ObjectSprites(assetSets, task.oid, task.sprites),
                            Some(task.image))
        /\ lastHover' = <<-1, -1>>
        /\ UNCHANGED <<gridSize, originOffsetX, originOffsetY,
                       selectedAssetSetId, selectedSpriteIndex, currentLayer,
                       hoverSprite, autoSaveTimeout, timers, storage, file,
                       hoverGraphics>>

(***************************************************************************)
(* window.phaserRemoveCustomAsset(id)                                      *)
(***************************************************************************)
\* a slip in the cascade: only anchors count as tiles of the texture
UsesTexture_AnchorOnly(tileData, textureKey) ==
    tileData.textureKey = textureKey /\ tileData.isAnchor

UsesTexture(tileData, textureKey) == tileData.textureKey = textureKey

\* a slip in the guard: the id is not looked up
Registered_Always(sets, id) == TRUE

Registered(sets, id) == MapHas(sets, id)

phaserRemoveCustomAsset(id) ==
    IF ~Registered(assetSets, id)
    THEN /\ Call(AssetResult("removeCustomAsset", "false", "call", id, Snapshot))
         /\ UNCHANGED <<gridSize, originOffsetX, originOffsetY, cityMap,
                        sprites, assetSets, textures, selectedAssetSetId,
                        selectedSpriteIndex, currentLayer, hoverSprite,
                        lastHover, autoSaveTimeout, timers, storage, tasks,
                        file, hoverGraphics>>
    ELSE
    LET textureKey == TextureKeyOf(id)
        uses == {i \in 1..Len(cityMap) : UsesTexture(cityMap[i], textureKey)}
        sp1 == DestroyEntries(cityMap, uses, sprites)
        remainingIds == SelectSeq(assetSets, LAMBDA a : a.key # id)
    IN  /\ Call(AssetResult("removeCustomAsset", "true", "call", id, Snapshot))
        /\ cityMap' = SelectSeq(cityMap, LAMBDA e : ~UsesTexture(e, textureKey))
        /\ IF selectedAssetSetId = id
           THEN /\ selectedAssetSetId' =
                       IF Len(remainingIds) > 0 THEN remainingIds[1].key ELSE ""
                /\ selectedSpriteIndex' = 0
           ELSE UNCHANGED <<selectedAssetSetId, selectedSpriteIndex>>
        /\ sprites' = IF hoverSprite # 0
                      THEN [sp1 EXCEPT ![hoverSprite].visible = FALSE]
                      ELSE sp1
        /\ assetSets' = MapDelete(assetSets, id)
        /\ timers' = timers \cup {[id |-> NewTimerId(timers),
                                   kind |-> "removeTexture", arg |-> textureKey]}
        /\ UNCHANGED <<gridSize, originOffsetX, originOffsetY, textures,
                       currentLayer, hoverSprite, lastHover, autoSaveTimeout,
                       storage, tasks, file, hoverGraphics>>

(***************************************************************************)
(* Inputs.                                                                 *)
(***************************************************************************)
\* pointer positions: the middle of every cell of the grid, of a cell left of
\* it and of a cell below it
PointerCells ==
    ((0..(gridSize - 1)) \X (0..(gridSize - 1)))
        \cup {<<-1, 0>>, <<0, gridSize>>}
PointerAt(c) == gridToIso(2 * c[1] + 1, 2 * c[2] + 1)

AssetIds == {"tiles", "c1", "ghost"}
\* (index, assetSetId?) pairs: every frame of every set, an index past the
\* end, and an id that is not registered
SelectInputs ==
    {<<0, "tiles">>, <<1, "tiles">>, <<0, "c1">>, <<1, "c1">>, <<2, "">>,
     <<0, "ghost">>}
LayerInputs == {-1, MaxLayer + 1}

PlaceStep ==
    /\ Ready
    /\ \E c \in PointerCells : LET p == PointerAt(c) IN placeTile(p.x, p.y)
RemoveStep ==
    /\ Ready
    /\ \E c \in PointerCells : LET p == PointerAt(c) IN removeTile(p.x, p.y)
SelectStep == Ready /\ \E s \in SelectInputs : setSelectedTile(s[1], s[2])
LayerStep == Ready /\ \E l \in LayerInputs : setLayer(l)

(***************************************************************************)
(* Spec: the placement engine under pointer and selection input.           *)
(***************************************************************************)
Next == PlaceStep \/ RemoveStep \/ SelectStep \/ LayerStep

Spec == Init /\ [][Next]_vars

(***************************************************************************)
(* SpecRoundTrip: a map built by placements is exported and the file is    *)
(* imported again.                                                         *)
(***************************************************************************)
GridCells == (0..(gridSize - 1)) \X (0..(gridSize - 1))
RtSelectInputs == {<<0, "tiles">>, <<1, "tiles">>, <<0, "c1">>, <<1, "c1">>}

RtPlaceStep ==
    /\ Ready /\ file = None
    /\ \E c \in GridCells : LET p == PointerAt(c) IN placeTile(p.x, p.y)
RtSelectStep ==
    /\ Ready /\ file = None
    /\ \E s \in RtSelectInputs : setSelectedTile(s[1], s[2])
RtLayerStep == Ready /\ file = None /\ \E l \in LayerInputs : setLayer(l)
RtExportStep == file = None /\ exportMap
RtImportStep == file # None /\ last.op = "exportMap" /\ loadMap(file[1])
RtDecodeStep == \E i \in 1..Len(tasks) : loadMapAssetLoaded(i)

NextRoundTrip ==
    \/ RtPlaceStep \/ RtSelectStep \/ RtLayerStep
    \/ RtExportStep \/ RtImportStep \/ RtDecodeStep

SpecRoundTrip == Init /\ [][NextRoundTrip]_vars

(***************************************************************************)
(* SpecIso: the two coordinate conversions applied to grid cells.          *)
(***************************************************************************)
MaxCell == 6
DefaultGridSize == 50
IsoCells == (-MaxCell..MaxCell) \X (-MaxCell..MaxCell)

scene ==
    <<gridSize, originOffsetX, originOffsetY, cityMap, sprites, assetSets,
      textures, selectedAssetSetId, selectedSpriteIndex, currentLayer,
      hoverSprite, lastHover, autoSaveTimeout, timers, storage, tasks, file,
      hoverGraphics>>

InitIso ==
    /\ \E size \in {InitGridSize, DefaultGridSize} : SceneCreated(size)
    /\ \E c \in IsoCells : last = [op |-> "cell", cell |-> c]
    /\ nops = 0

gridToIsoStep ==
    /\ last.op = "cell"
    /\ last' = [op |-> "gridToIso", cell |-> last.cell,
                world |-> gridToIso(2 * last.cell[1], 2 * last.cell[2])]
    /\ UNCHANGED <<scene, nops>>

isoToGridStep ==
    /\ last.op = "gridToIso"
    /\ last' = [op |-> "isoToGrid", cell |-> last.cell, world |-> last.world,
                grid |-> isoToGrid(last.world.x, last.world.y)]
    /\ UNCHANGED <<scene, nops>>

NextIso == gridToIsoStep \/ isoToGridStep

SpecIso == InitIso /\ [][NextIso]_vars

(***************************************************************************)
(* SpecAssets: the asset functions of the window, their image callbacks    *)
(* and timers, next to placement, hover and import.                        *)
(***************************************************************************)
ShedSprite == Frame("shed", 0, 0, 2, 2, None, None)
ShedImage == Image(2, 2)
HutSprites == << Frame("hut", 0, 0, 3, 3, None, Some(Org(50, 75))) >>
HutImage == Image(3, 3)

DocTile(x, y, layer, tileName, textureKey) ==
    [x |-> x, y |-> y, layer |-> layer, tileName |-> tileName,
     textureKey |-> textureKey, footprint |-> None, origin |-> None]

\* a version 4.0 document whose second custom asset has an image that does
\* not decode
BrokenDoc ==
    [version |-> "4.0", gridSize |-> InitGridSize,
     originOffsetX |-> Some((InitGridSize * tileWidth) \div 2),
     originOffsetY |-> Some(InitOriginOffsetY),
     tileWidth |-> tileWidth, tileHeight |-> tileHeight,
     customAssets |-> << [id |-> "c2", imageDataUrl |-> HutImage,
                          sprites |-> HutSprites],
                         [id |-> "c3", imageDataUrl |-> BrokenImage,
                          sprites |-> <<ShedSprite>>] >>,
     tiles |-> << DocTile(0, 0, 0, "hut", "texture_c2") >>]

\* a document of the first format: no origin offset, no custom assets, the
\* old texture keys
LegacyDoc ==
    [version |-> "1.0", gridSize |-> InitGridSize,
     originOffsetX |-> None, originOffsetY |-> None,
     tileWidth |-> tileWidth, tileHeight |-> tileHeight,
     customAssets |-> <<>>,
     tiles |-> << DocTile(1, 0, 0, "road", "cityTiles") >>]

AssetCells == {<<0, 0>>}
HoverCells == {<<0, 0>>, <<-1, 0>>}
AsSelectInputs == {<<0, "c1">>}
RemoveAssetInputs == {"c1", "ghost"}
RemoveFrameInputs == {<<"c1", 0>>, <<"c1", 2>>, <<"c1", -1>>, <<"ghost", 0>>}
AppendInputs == {<<"c1", ShedImage>>, <<"c1", BrokenImage>>, <<"ghost", ShedImage>>}
AddInputs == {HutImage, BrokenImage}
\* a version 4.0 document with two custom assets whose images decode
TwoAssetDoc ==
    [BrokenDoc EXCEPT
        !.customAssets = << [id |-> "c2", imageDataUrl |-> HutImage,
                             sprites |-> HutSprites],
                            [id |-> "c3", imageDataUrl |-> ShedImage,
                             sprites |-> <<ShedSprite>>] >>,
        !.tiles = << DocTile(0, 0, 0, "hut", "texture_c2"),
                     DocTile(1, 0, 0, "shed", "texture_c3") >>]

ImportDocs == {BrokenDoc, LegacyDoc, TwoAssetDoc}

\* image decodes in flight at a time
MaxPending == 1
CanDecode == Len(tasks) < MaxPending

\* the panel offers one edit of an asset set at a time: no frame is added
\* to or removed from a set while an earlier edit of it is still decoding
NoPendingEdit(id) ==
    \A i \in 1..Len(tasks) :
        tasks[i].kind \in {"appendDecode", "appendCombined", "removeFrameLoad"}
            => tasks[i].id # id

AsSelectStep == Ready /\ \E s \in AsSelectInputs : setSelectedTile(s[1], s[2])
AsPlaceStep ==
    /\ Ready
    /\ \E c \in AssetCells : LET p == PointerAt(c) IN placeTile(p.x, p.y)
AsHoverStep ==
    /\ Ready
    /\ \E c \in HoverCells : LET p == PointerAt(c) IN updateHoverPreview(p.x, p.y)
AsRemoveAssetStep == Ready /\ \E id \in RemoveAssetInputs : phaserRemoveCustomAsset(id)
AsRemoveFrameStep ==
    /\ Ready
    /\ \E a \in RemoveFrameInputs :
           /\ MapHas(assetSets, a[1]) => CanDecode /\ NoPendingEdit(a[1])
           /\ phaserRemoveSpriteFromAsset(a[1], a[2])
AsAppendStep ==
    /\ Ready
    /\ \E a \in AppendInputs :
           /\ MapHas(assetSets, a[1]) => CanDecode /\ NoPendingEdit(a[1])
           /\ phaserAddSpriteToAsset(a[1], a[2], ShedSprite)
AsAddStep ==
    /\ Ready /\ CanDecode
    /\ \E img \in AddInputs : phaserAddCustomAsset("c2", img, HutSprites)
AsImportStep == Ready /\ CanDecode /\ \E doc \in ImportDocs : loadMap(doc)

AssetLoadedStep == \E i \in 1..Len(tasks) : addCustomAssetLoaded(i)
AssetFailedStep == \E i \in 1..Len(tasks) : addCustomAssetFailed(i)
AppendDecodedStep == \E i \in 1..Len(tasks) : appendSpriteDecoded(i)
AppendFailedStep == \E i \in 1..Len(tasks) : appendSpriteFailed(i)
AppendCombinedStep == \E i \in 1..Len(tasks) : appendSpriteCombined(i)
FrameLoadedStep == \E i \in 1..Len(tasks) : removeFrameLoaded(i)
ImportLoadedStep == \E i \in 1..Len(tasks) : loadMapAssetLoaded(i)
ImportFailedStep == \E i \in 1..Len(tasks) : loadMapAssetFailed(i)

NextAssets ==
    \/ AsSelectStep \/ AsPlaceStep \/ AsHoverStep
    \/ AsRemoveAssetStep \/ AsRemoveFrameStep \/ AsAppendStep
    \/ AppendDecodedStep \/ AppendFailedStep \/ AppendCombinedStep
    \/ FrameLoadedStep \/ removeTextureFired

SpecAssets == Init /\ [][NextAssets]_vars

(***************************************************************************)
(* SpecDecode: the operations that decode an image, with images that do    *)
(* and images that do not decode.                                          *)
(***************************************************************************)
NextDecode ==
    \/ AsSelectStep \/ AsPlaceStep
    \/ AsAppendStep \/ AsAddStep \/ AsImportStep
    \/ AssetLoadedStep \/ AssetFailedStep
    \/ AppendDecodedStep \/ AppendFailedStep \/ AppendCombinedStep
    \/ ImportLoadedStep \/ ImportFailedStep

SpecDecode == Init /\ [][NextDecode]_vars

(***************************************************************************)
(* Vocabulary of the properties.                                           *)
(***************************************************************************)
Rect(x, y, footprint) ==
    {<<cx, cy>> : cx \in x..(x + footprint.width - 1),
                  cy \in y..(y + footprint.height - 1)}

RectKeys(x, y, layer, footprint) ==
    {<<c[1], c[2], layer>> : c \in Rect(x, y, footprint)}

UniqueKeys(m) == \A i, j \in 1..Len(m) : m[i].key = m[j].key => i = j

Satellites(m) == {i \in 1..Len(m) : ~m[i].isAnchor}

\* C1: every satellite's anchorKey resolves to an anchor entry whose
\* footprint rectangle contains the satellite's cell (no orphaned satellite,
\* no dangling anchorKey).
C1_NoOrphanSatellite ==
    \A i \in Satellites(cityMap) :
        /\ cityMap[i].anchorKey # None
        /\ MapHas(cityMap, cityMap[i].anchorKey[1])
        /\ LET a == MapGet(cityMap, cityMap[i].anchorKey[1])
           IN  /\ a.isAnchor
               /\ cityMap[i].key \in
                      RectKeys(a.key[1], a.key[2], a.key[3], a.footprint)

\* C2: right after an accepted place of a footprint (w,h) at (x,y,layer) the
\* map has one entry for each of the w*h cells of the rectangle at that
\* layer; the one at (x,y,layer) is the anchor and owns a live drawable, every
\* other one has no drawable and carries the anchor's key.
C2_PlacePostcondition ==
    (last.op = "place" /\ last.ret = "placed") =>
        LET anchorKey == <<last.x, last.y, last.layer>>
            keys == RectKeys(last.x, last.y, last.layer, last.footprint)
            inRect == {i \in 1..Len(cityMap) : cityMap[i].key \in keys}
        IN  /\ UniqueKeys(cityMap)
            /\ Cardinality(inRect) = last.footprint.width * last.footprint.height
            /\ keys \subseteq MapKeys(cityMap)
            /\ \A i \in inRect :
                  IF cityMap[i].key = anchorKey
                  THEN /\ cityMap[i].isAnchor
                       /\ cityMap[i].sprite \in DOMAIN sprites
                       /\ cityMap[i].sprite \in last.created
                       /\ cityMap[i].footprint = last.footprint
                  ELSE /\ ~cityMap[i].isAnchor
                       /\ cityMap[i].sprite = 0
                       /\ cityMap[i].anchorKey = Some(anchorKey)
            /\ Cardinality(last.created) = 1

C2_Witness ==
    /\ last.op = "place" /\ last.ret = "placed"
    /\ last.footprint = FP(2, 2)
    /\ Len(cityMap) > 4

\* C3: a remove dispatched directly after an accepted place, at the same
\* cell and layer, deletes the w*h entries of the rectangle and destroys one
\* drawable, the one that place created.
C3_RemoveAfterPlace ==
    [][(/\ last.op = "place" /\ last.ret = "placed"
        /\ last'.op = "remove"
        /\ last'.x = last.x /\ last'.y = last.y /\ last'.layer = last.layer)
       => (/\ last'.ret = "removed"
           /\ MapKeys(cityMap') \cap
                 RectKeys(last.x, last.y, last.layer, last.footprint) = {}
           /\ Len(cityMap') = Len(cityMap)
                 - last.footprint.width * last.footprint.height
           /\ last'.destroyed = last.created
           /\ Cardinality(last'.destroyed) = 1
           /\ DOMAIN sprites' = DOMAIN sprites \ last.created)]_vars

C3_Witness ==
    /\ last.op = "remove" /\ last.ret = "removed"
    /\ last.anchorKey = Some(<<last.x, last.y, last.layer>>)
    /\ Cardinality(last.destroyed) = 1
    /\ last.deleted = 4
    /\ nops = 3
    /\ selectedAssetSetId = "tiles" /\ selectedSpriteIndex = 1

C5_RejectedPlaceIsNoOp ==
    [][(/\ last'.op = "place" /\ nops' = nops + 1
        /\ \/ ~(last'.x \in 0..(gridSize - 1) /\ last'.y \in 0..(gridSize - 1))
           \/ /\ SelectedSprite # None
              /\ \E c \in Rect(last'.x, last'.y,
                              OrElse(SelectedSprite[1].footprint, DefaultFootprint)) :
                    ~(c[1] \in 0..(gridSize - 1) /\ c[2] \in 0..(gridSize - 1)))
       => UNCHANGED <<cityMap, sprites, timers, autoSaveTimeout, storage>>]_vars

C5_Witness ==
    /\ last.op = "place" /\ last.ret = "rejected"
    /\ last.x \in 0..(gridSize - 1) /\ last.y \in 0..(gridSize - 1)
    /\ last.footprint.width * last.footprint.height > 1
    /\ Len(cityMap) > 0

\* the anchors of a map: cell, frame name, texture, footprint and origin
AnchorView(m) ==
    {[x |-> m[i].key[1], y |-> m[i].key[2], layer |-> m[i].key[3],
      tileName |-> m[i].tileName, textureKey |-> m[i].textureKey,
      footprint |-> m[i].footprint, origin |-> m[i].origin]
        : i \in {j \in 1..Len(m) : m[j].isAnchor}}

\* an import that has finished and whose document is the export of the map
\* the import started from
ImportedOwnExport ==
    /\ last.op = "loadMap" /\ last.ret = "loaded"
    /\ last.doc = MapDocument(last.before.cityMap, last.before.assetSets,
                              gridSize, last.before.originOffsetX,
                              last.before.originOffsetY)

\* C6: importing the export of a map built by placements gives a map with
\* the same anchor cells (x, y, layer), each with the same frame name,
\* texture, footprint and origin, although the document leaves out a 1x1
\* footprint and a default origin.
C6_ImportOfExport ==
    ImportedOwnExport => AnchorView(cityMap) = AnchorView(last.before.cityMap)

\* an import of the own export of a map holding a multi-cell anchor (its
\* footprint is written to the document) and a 1x1 anchor with the default
\* origin (both are left out of the document)
C6_Witness ==
    /\ ImportedOwnExport
    /\ \E t \in AnchorView(cityMap) : t.footprint.width > 1 /\ t.origin # DefaultOrigin
    /\ \E t \in AnchorView(cityMap) : t.footprint = DefaultFootprint /\ t.origin = DefaultOrigin
    /\ \E i \in 1..Len(last.doc.tiles) :
           last.doc.tiles[i].footprint = None /\ last.doc.tiles[i].origin = None

\* C7: for every integer grid cell, negative ones included, isoToGrid of
\* gridToIso of the cell is the cell.
C7_GridRoundTrip ==
    last.op = "isoToGrid" =>
        last.grid.gridX = last.cell[1] /\ last.grid.gridY = last.cell[2]

\* the round trip of a cell with two negative coordinates
C7_Witness ==
    /\ last.op = "isoToGrid"
    /\ last.cell = <<-MaxCell, -1>>
    /\ last.grid.gridX = -MaxCell

\* the entries of a map that use a texture
EntriesOf(m, textureKey) == {i \in 1..Len(m) : m[i].textureKey = textureKey}

\* C8: when removeCustomAsset(id) returns true, no entry of the map, anchor
\* or satellite, uses the set's texture, every drawable such an entry held is
\* destroyed, the set is not registered any more, and a selection of the
\* set has moved to a registered set, or to none, with index 0.
C8_RemoveAssetCascades ==
    [][(nops' = nops + 1 /\ last'.op = "removeCustomAsset" /\ last'.ret = "true")
        => LET id == last'.id
               textureKey == TextureKeyOf(id)
           IN  /\ EntriesOf(cityMap', textureKey) = {}
               /\ \A i \in EntriesOf(cityMap, textureKey) :
                      cityMap[i].sprite # 0
                          => cityMap[i].sprite \notin DOMAIN sprites'
               /\ ~MapHas(assetSets', id)
               /\ selectedAssetSetId = id =>
                      /\ selectedSpriteIndex' = 0
                      /\ \/ selectedAssetSetId' = ""
                         \/ MapHas(assetSets', selectedAssetSetId')]_vars

\* the selected custom set is removed while the map holds an anchor and a
\* satellite of one of its frames
C8_Witness ==
    /\ last.op = "removeCustomAsset" /\ last.ret = "true"
    /\ nops = last.before.nops + 1
    /\ last.before.selectedAssetSetId = last.id
    /\ selectedAssetSetId = "tiles"
    /\ \E i, j \in EntriesOf(last.before.cityMap, TextureKeyOf(last.id)) :
           /\ last.before.cityMap[i].isAnchor
           /\ ~last.before.cityMap[j].isAnchor
    /\ cityMap = <<>>

\* a call of one of the three functions with an id that is not registered,
\* or of removeFrame with an index outside the frames of the set
IsNotFoundCall ==
    /\ nops' = nops + 1
    /\ last'.op \in {"appendSprite", "removeFrame", "removeCustomAsset"}
    /\ \/ ~MapHas(assetSets, last'.id)
       \/ /\ last'.op = "removeFrame"
          /\ \/ last'.index < 0
             \/ last'.index >= Len(MapGet(assetSets, last'.id).sprites)

\* C9: appendSprite, removeFrame and removeCustomAsset with an unknown id,
\* and removeFrame with an index outside [0, number of frames), return false
\* and leave the map, the drawables, the registry, the textures, the
\* selection and the hover preview as they were; nothing is scheduled.
C9_NotFoundIsNoOp ==
    [][IsNotFoundCall =>
           /\ last'.ret = "false"
           /\ UNCHANGED <<cityMap, sprites, assetSets, textures,
                          selectedAssetSetId, selectedSpriteIndex, hoverSprite,
                          lastHover, hoverGraphics, tasks, timers>>]_vars

\* removeFrame with an index past the last frame of a registered set, with a
\* tile on the map and the hover preview shown
C9_Witness ==
    /\ last.op = "removeFrame" /\ last.ret = "false"
    /\ nops = last.before.nops + 1
    /\ MapHas(assetSets, last.id)
    /\ last.index >= Len(MapGet(assetSets, last.id).sprites)
    /\ cityMap # <<>>
    /\ hoverSprite # 0

\* an image failed to decode, and from the call to the failure no other
\* call and no other callback ran
DecodeFailedAlone ==
    /\ last.op \in {"loadMap", "addCustomAsset", "appendSprite"}
    /\ last.event = "onerror"
    /\ last.before.tasks = <<>>
    /\ nops = last.before.nops + 1

\* C10: when an image fails to decode during import, addCustomAsset or
\* appendSprite, the map, its drawables and the asset registry are what they
\* were when the operation was called.
C10_FailedDecodeChangesNothing ==
    DecodeFailedAlone =>
        /\ cityMap = last.before.cityMap
        /\ sprites = last.before.sprites
        /\ assetSets = last.before.assetSets

(***************************************************************************)
(* Frames and atlas images.                                                *)
(***************************************************************************)
InsideImage(f, img) ==
    /\ f.x >= 0 /\ f.y >= 0 /\ f.width >= 1 /\ f.height >= 1
    /\ f.x + f.width <= img.width
    /\ f.y + f.height <= img.height

\* the asset sets no frame edit of which is still decoding
SettledSets == {a \in {assetSets[i] : i \in 1..Len(assetSets)} : NoPendingEdit(a.id)}

FrameNames(a) == [i \in 1..Len(a.sprites) |-> a.sprites[i].name]

RemoveFrameCompletes ==
    /\ Len(tasks') < Len(tasks)
    /\ last'.op = "removeFrame" /\ last'.event = "onload"
    /\ MapHas(assetSets', last'.id)
    /\ Len(MapGet(last'.before.assetSets, last'.id).sprites) > 1

\* C12: removeFrame of one of n > 1 frames leaves the other n-1 frames in
\* their order with their names, widths and heights, each at x = 0 and at
\* the y where the frame before it ends (the first at 0), so that no two
\* overlap; the new atlas image is as high as the frames together and as
\* wide as the widest of them, and the texture holds these frames.
C12_RemoveFrameRepacks ==
    [][RemoveFrameCompletes =>
        LET old == MapGet(last'.before.assetSets, last'.id).sprites
            kept == RemoveAt(old, last'.index + 1)
            a == MapGet(assetSets', last'.id)
            now == a.sprites
            tex == textures'[a.textureKey]
            n == Len(kept)
        IN  /\ Len(now) = n
            /\ \A i \in 1..n :
                   now[i] = [kept[i] EXCEPT
                                !.x = 0,
                                !.y = IF i = 1 THEN 0
                                      ELSE now[i - 1].y + now[i - 1].height]
            /\ \A i, j \in 1..n :
                   i < j => now[i].y + now[i].height <= now[j].y
            /\ tex.image.height = now[n].y + now[n].height
            /\ \A i \in 1..n : now[i].width <= tex.image.width
            /\ \E i \in 1..n : now[i].width = tex.image.width
            /\ a.imageDataUrl = Some(tex.image)
            /\ tex.frames \subseteq {FrameRect(now[i]) : i \in 1..n}
            /\ \A i \in 1..n : \E f \in tex.frames : f.name = now[i].name]_vars

\* the first of three frames was removed: two frames moved up
C12_Witness ==
    /\ last.op = "removeFrame" /\ last.event = "onload"
    /\ Len(MapGet(last.before.assetSets, "c1").sprites) = 3
    /\ last.index = 0
    /\ MapHas(assetSets, "c1")
    /\ FrameNames(MapGet(assetSets, "c1")) = <<"wall", "shed">>
    /\ MapGet(assetSets, "c1").sprites[2].y = 4
    /\ textures["texture_c1"].image = Image(2, 6)

(***************************************************************************)
(* expandGrid(amount), reached through window.phaserExpandGrid             *)
(***************************************************************************)
MinGridSize == 5
GridStep == 5
\* the grid is not grown beyond this size
MaxGridSize == 7

expandGrid(amount) ==
    LET saved == scheduleAutoSave(timers)
    IN  /\ Call([op |-> "expandGrid", ret |-> "done", amount |-> amount,
                 before |-> Snapshot])
        /\ gridSize' = Max(MinGridSize, gridSize + amount)
        /\ timers' = saved.timers
        /\ autoSaveTimeout' = saved.autoSaveTimeout
        /\ UNCHANGED <<originOffsetX, originOffsetY, cityMap, sprites,
                       assetSets, textures, selectedAssetSetId,
                       selectedSpriteIndex, currentLayer, hoverSprite,
                       lastHover, storage, tasks, file, hoverGraphics>>

(***************************************************************************)
(* SpecAutoSave: the operations of the scene that schedule an auto-save,   *)
(* and the timer that writes it.  A timer that stays pending fires.        *)
(***************************************************************************)
SaveCells == {<<0, 0>>, <<1, 0>>}
ExpandInputs == {GridStep, -GridStep}

SvSelectStep == Ready /\ \E s \in AsSelectInputs : setSelectedTile(s[1], s[2])
SvPlaceStep ==
    /\ Ready
    /\ \E c \in SaveCells : LET p == PointerAt(c) IN placeTile(p.x, p.y)
SvRemoveStep ==
    /\ Ready
    /\ \E c \in SaveCells : LET p == PointerAt(c) IN removeTile(p.x, p.y)
SvExpandStep ==
    /\ Ready
    /\ \E amount \in ExpandInputs :
           /\ gridSize + amount <= MaxGridSize
           /\ expandGrid(amount)

NextAutoSave ==
    \/ SvSelectStep \/ SvPlaceStep \/ SvRemoveStep \/ SvExpandStep
    \/ autoSaveFired

SpecAutoSave == Init /\ [][NextAutoSave]_vars /\ WF_vars(autoSaveFired)

(***************************************************************************)
(* Auto-save.                                                              *)
(***************************************************************************)
AutoSaveTimers == {t \in timers : t.kind = "autoSave"}
AutoSavePending == AutoSaveTimers # {}
CurrentDocument ==
    MapDocument(cityMap, assetSets, gridSize, originOffsetX, originOffsetY)

\* a call that changed the map or the size of the grid
MutatingCall ==
    /\ nops' = nops + 1
    /\ cityMap' # cityMap \/ gridSize' # gridSize

\* C13: auto-save is debounced.  At most one auto-save timer is pending and
\* autoSaveTimeout names it; every call that changes the map or the grid
\* size leaves exactly one timer pending and writes nothing itself; the
\* slot is written only by the timer firing, with the document of the map
\* as it is then, after which no timer is pending; a pending timer is
\* followed by such a write.  So a burst of calls, each before the timer
\* fired, is followed by one write holding the map of the last call.
C13_AutoSaveDebounced ==
    /\ [](/\ Cardinality(AutoSaveTimers) <= 1
          /\ \A t \in AutoSaveTimers : t.id = autoSaveTimeout
          /\ AutoSavePending <=> autoSaveTimeout # 0)
    /\ [][/\ MutatingCall =>
                 /\ Cardinality({t \in timers' : t.kind = "autoSave"}) = 1
                 /\ storage' = storage
          /\ storage' # storage =>
                 /\ AutoSavePending
                 /\ nops' = nops /\ cityMap' = cityMap
                 /\ {t \in timers' : t.kind = "autoSave"} = {}
                 /\ storage' = Some(CurrentDocument)]_vars
    /\ (AutoSavePending ~> (~AutoSavePending /\ storage = Some(CurrentDocument)))

\* two tiles were placed and one of them removed, and the timer has fired
\* since: the slot holds the map of the third call
C13_Witness ==
    /\ nops = 3
    /\ last.op = "remove" /\ last.ret = "removed"
    /\ Len(cityMap) = 1
    /\ ~AutoSavePending
    /\ storage = Some(CurrentDocument)

(***************************************************************************)
(* SpecSaveAssets: placement and the asset functions of the window, with   *)
(* the auto-save timer.  A pending timer fires and an image that is being  *)
(* decoded gets its callback.                                              *)
(***************************************************************************)
ImageCallbacks ==
    \/ AssetLoadedStep \/ AssetFailedStep
    \/ AppendDecodedStep \/ AppendFailedStep \/ AppendCombinedStep
    \/ FrameLoadedStep

NextSaveAssets ==
    \/ AsSelectStep \/ AsPlaceStep
    \/ AsRemoveAssetStep \/ AsRemoveFrameStep \/ AsAppendStep \/ AsAddStep
    \/ ImageCallbacks
    \/ autoSaveFired \/ removeTextureFired

SpecSaveAssets ==
    /\ Init /\ [][NextSaveAssets]_vars
    /\ WF_vars(autoSaveFired) /\ WF_vars(ImageCallbacks)

\* the map, the custom asset sets or the grid size have changed since the
\* scene was created or the slot was written, and the slot does not hold
\* the document that describes them
Unsaved ==
    /\ storage # Some(CurrentDocument)
    /\ ~(/\ storage = None /\ cityMap = <<>>
         /\ assetSets = InitialAssetSets /\ gridSize = InitGridSize)

\* C14: every operation that changes the map, the custom asset sets or the
\* grid size starts the auto-save timer, so that a change that is not in
\* the auto-save slot is eventually followed by a state in which the slot
\* holds the document of the map and the custom asset sets as they are.
C14_EventuallySaved == Unsaved ~> ~Unsaved

(***************************************************************************)
(* SpecImport: import of documents written for a grid of another size,     *)
(* with and without the origin offset, next to placement and grid resize.  *)
(***************************************************************************)
\* a document saved when the grid had been grown, with its origin offset
WideDoc ==
    [version |-> "4.0", gridSize |-> MaxGridSize,
     originOffsetX |-> Some((InitGridSize * tileWidth) \div 2),
     originOffsetY |-> Some(InitOriginOffsetY + tileHeight),
     tileWidth |-> tileWidth, tileHeight |-> tileHeight,
     customAssets |-> <<>>,
     tiles |-> << DocTile(0, 0, 0, "road", "texture_tiles") >>]

\* a document of the first format for a grid of that size
WideLegacyDoc == [LegacyDoc EXCEPT !.gridSize = MaxGridSize]

SizeDocs == {LegacyDoc, WideLegacyDoc, WideDoc}

ImImportStep == Ready /\ \E doc \in SizeDocs : loadMap(doc)

NextImport ==
    \/ SvSelectStep \/ SvPlaceStep \/ SvRemoveStep \/ SvExpandStep
    \/ ImImportStep

SpecImport == Init /\ [][NextImport]_vars

ImportDone == last.op = "loadMap" /\ last.ret = "loaded"

\* import sets the origin offset from the document, or from the document's
\* grid size when the document has no offset
ImportRestoresOffset ==
    ImportDone =>
        IF last.doc.originOffsetX # None
        THEN /\ originOffsetX = last.doc.originOffsetX[1]
             /\ originOffsetY = OrElse(last.doc.originOffsetY, InitOriginOffsetY)
        ELSE /\ 2 * originOffsetX = last.doc.gridSize * tileWidth
             /\ originOffsetY = InitOriginOffsetY

\* C15: after import(document) the grid size is the document's gridSize and
\* the origin offset is the document's, or (gridSize * tileWidth / 2, 200)
\* computed from the document's gridSize when the document has none.
C15_ImportRestoresGrid ==
    /\ ImportDone => gridSize = last.doc.gridSize
    /\ ImportRestoresOffset

(***************************************************************************)
(* Startup: create() with what the auto-save slot holds, the bundled map   *)
(* and the terrain prefill.                                                *)
(***************************************************************************)
FloorsSprites == << Frame("grass_02_11", 0, 0, 4, 2, None, None) >>
FloorsImage == Image(4, 2)

ConfiguredAssetSets ==
    << AssetSet(1, "tiles", TilesSprites, FALSE, None),
       AssetSet(2, "floors", FloorsSprites, FALSE, None) >>

\* the constructor and preload: the configured sheets are loaded, create()
\* is about to run, the slot holds what an earlier session left
SceneConstructed(size) ==
    /\ gridSize = size
    /\ originOffsetX = (size * tileWidth) \div 2
    /\ originOffsetY = InitOriginOffsetY
    /\ cityMap = <<>>
    /\ sprites = <<>>
    /\ assetSets = ConfiguredAssetSets
    /\ textures = [k \in {"texture_tiles", "texture_floors"} |->
                     IF k = "texture_tiles"
                     THEN Texture(TilesImage, TilesSprites)
                     ELSE Texture(FloorsImage, FloorsSprites)]
    /\ selectedAssetSetId = "tiles"
    /\ selectedSpriteIndex = 0
    /\ currentLayer = 0
    /\ hoverSprite = 0
    /\ lastHover = <<-1, -1>>
    /\ autoSaveTimeout = 0
    /\ timers = {}
    /\ tasks = << [kind |-> "create", oid |-> 0] >>
    /\ file = None
    /\ hoverGraphics = {}

\* a text in the slot that is not JSON
UnparsableText == [text |-> "{\"version\":"]

\* JSON.parse: a document text gives the document, any other text throws
JSONparse(text) ==
    IF "version" \in DOMAIN text
    THEN [threw |-> FALSE, value |-> text]
    ELSE [threw |-> TRUE, value |-> None]

\* a slip in loadFromLocalStorage: no catch around the parse
CaughtParseError_Rethrow(slot) ==
    [ret |-> "threw", storage |-> slot, doc |-> None]

\* "catch (error) { ... localStorage.removeItem(AUTO_SAVE_KEY); return false }"
CaughtParseError(slot) == [ret |-> "false", storage |-> None, doc |-> None]

\* loadFromLocalStorage up to the call of loadMap
ReadSlot(slot) ==
    IF slot = None THEN [ret |-> "false", storage |-> None, doc |-> None]
    ELSE LET parsed == JSONparse(slot[1])
         IN  IF parsed.threw THEN CaughtParseError(slot)
             ELSE [ret |-> "true", storage |-> slot, doc |-> Some(parsed.value)]

SlotKind(slot) ==
    IF slot = None THEN "empty"
    ELSE IF JSONparse(slot[1]).threw THEN "unparsable" ELSE "document"

CreateResult(ret, event, slot, fetched) ==
    [op |-> "create", ret |-> ret, event |-> event, slot |-> slot,
     fetched |-> fetched]

\* create(): loadFromLocalStorage, and when it answers false the request
\* for the bundled map
create(i) ==
    LET read == ReadSlot(storage)
        rest == RemoveAt(tasks, i)
    IN  /\ tasks[i].kind = "create"
        /\ IF read.ret = "threw"
           THEN /\ Done(CreateResult("threw", "create", SlotKind(storage), "none"))
                /\ tasks' = rest
                /\ UNCHANGED <<storage, cityMap, sprites, originOffsetX,
                               originOffsetY>>
           ELSE IF read.ret = "false"
           THEN /\ Done(CreateResult("fetching", "create", SlotKind(storage),
                                     "none"))
                /\ storage' = read.storage
                /\ tasks' = Append(rest, [kind |-> "oasisFetch", oid |-> 0,
                                          slot |-> SlotKind(storage)])
                /\ UNCHANGED <<cityMap, sprites, originOffsetX, originOffsetY>>
           ELSE LET doc == read.doc[1]
                    cleared == DestroyAll(cityMap, 1, sprites)
                    offX == RestoredOffsetX(doc)
                    offY == RestoredOffsetY(doc)
                IN  /\ originOffsetX' = offX
                    /\ originOffsetY' = offY
                    /\ IF Len(doc.customAssets) > 0
                       THEN /\ Done(CreateResult("awaiting", "create",
                                                 "document", "none"))
                            /\ cityMap' = <<>>
                            /\ sprites' = cleared
                            /\ tasks' = Append(rest, LoadMapTask(doc, 1, Snapshot))
                            /\ UNCHANGED storage
                       ELSE /\ Done(CreateResult("restored", "create",
                                                 "document", "none"))
                            /\ LoadMapFinish(doc, <<>>, assetSets, cleared, offX, offY)
                            /\ tasks' = rest
        /\ UNCHANGED <<gridSize, assetSets, textures, selectedAssetSetId,
                       selectedSpriteIndex, currentLayer, hoverSprite,
                       lastHover, autoSaveTimeout, timers, file, hoverGraphics>>

\* prefillMapWithGrass: gridY outer, gridX inner; cells that have a tile on
\* layer 0 are skipped
RECURSIVE PrefillCells(_, _, _, _, _, _)
PrefillCells(size, n, m, sp, offX, offY) ==
    IF n >= size * size THEN [map |-> m, sprites |-> sp]
    ELSE
    LET gridX == n % size
        gridY == n \div size
        key == <<gridX, gridY, 0>>
        grassSprite == FloorsSprites[1]
        isoPos == IsoAt(2 * gridX, 2 * gridY, offX, offY)
        sprite == NewId(sp, m)
    IN  IF MapHas(m, key) THEN PrefillCells(size, n + 1, m, sp, offX, offY)
        ELSE PrefillCells(size, n + 1,
                 MapSet(m, key,
                        PlacedTile(key, sprite, grassSprite.name,
                                   "texture_floors", 0,
                                   OrElse(grassSprite.footprint, DefaultFootprint),
                                   OrElse(grassSprite.origin, DefaultOrigin),
                                   TRUE, None)),
                 AddImage(sp, sprite,
                          Drawable(isoPos.x, isoPos.y, "texture_floors",
                                   grassSprite.name,
                                   OrElse(grassSprite.origin, DefaultOrigin),
                                   (gridX + gridY) * DepthPerCell)),
                 offX, offY)

prefillMapWithGrass(m, sp, offX, offY) ==
    IF ~MapHas(assetSets, "floors") THEN [map |-> m, sprites |-> sp]
    ELSE PrefillCells(gridSize, 0, m, sp, offX, offY)

\* the bundled map
OasisDoc ==
    [version |-> "4.0", gridSize |-> InitGridSize,
     originOffsetX |-> Some((InitGridSize * tileWidth) \div 2),
     originOffsetY |-> Some(InitOriginOffsetY),
     tileWidth |-> tileWidth, tileHeight |-> tileHeight,
     customAssets |-> <<>>,
     tiles |-> << DocTile(1, 0, 0, "road", "texture_tiles") >>]

FetchOutcomes == {"ok", "notFound", "failed"}

\* the answer to fetch("/oasis-map.json") arrives: loadOasisMap goes on with
\* loadMap or gives up, then create() prefills the map
oasisMapFetched(i, outcome) ==
    LET task == tasks[i]
        cleared == DestroyAll(cityMap, 1, sprites)
        offX == IF outcome = "ok" THEN RestoredOffsetX(OasisDoc) ELSE originOffsetX
        offY == IF outcome = "ok" THEN RestoredOffsetY(OasisDoc) ELSE originOffsetY
        loaded == IF outcome = "ok"
                  THEN LoadTiles(OasisDoc.tiles, 1, <<>>, cleared, offX, offY)
                  ELSE [map |-> cityMap, sprites |-> sprites]
        filled == prefillMapWithGrass(loaded.map, loaded.sprites, offX, offY)
    IN  /\ task.kind = "oasisFetch"
        /\ Done(CreateResult("default", "fetched", task.slot, outcome))
        /\ tasks' = RemoveAt(tasks, i)
        /\ originOffsetX' = offX
        /\ originOffsetY' = offY
        /\ cityMap' = filled.map
        /\ sprites' = filled.sprites
        /\ storage' = IF outcome = "ok"
                      THEN Some(MapDocument(loaded.map, assetSets, gridSize,
                                            offX, offY))
                      ELSE storage
        /\ UNCHANGED <<gridSize, assetSets, textures, selectedAssetSetId,
                       selectedSpriteIndex, currentLayer, hoverSprite,
                       lastHover, autoSaveTimeout, timers, file, hoverGraphics>>

(***************************************************************************)
(* SpecStartup: page loads with an empty slot, a slot that is not JSON and *)
(* a slot written by an earlier session; then placement, the auto-save     *)
(* timer and reloads of the page.                                          *)
(***************************************************************************)
\* a document an earlier session saved
SavedDoc == [OasisDoc EXCEPT !.tiles = << DocTile(0, 1, 0, "road", "texture_tiles") >>]

SlotInputs == {None, Some(UnparsableText), Some(SavedDoc)}

InitStartup ==
    /\ SceneConstructed(InitGridSize)
    /\ storage \in SlotInputs
    /\ last = [op |-> "construct"]
    /\ nops = 0

\* the page is loaded again: a new game and scene, the same persistent store
reloadPage ==
    /\ Call([op |-> "reload"])
    /\ gridSize' = InitGridSize
    /\ originOffsetX' = (InitGridSize * tileWidth) \div 2
    /\ originOffsetY' = InitOriginOffsetY
    /\ cityMap' = <<>>
    /\ sprites' = <<>>
    /\ assetSets' = ConfiguredAssetSets
    /\ textures' = [k \in {"texture_tiles", "texture_floors"} |->
                      IF k = "texture_tiles"
                      THEN Texture(TilesImage, TilesSprites)
                      ELSE Texture(FloorsImage, FloorsSprites)]
    /\ selectedAssetSetId' = "tiles"
    /\ selectedSpriteIndex' = 0
    /\ currentLayer' = 0
    /\ hoverSprite' = 0
    /\ lastHover' = <<-1, -1>>
    /\ autoSaveTimeout' = 0
    /\ timers' = {}
    /\ tasks' = << [kind |-> "create", oid |-> 0] >>
    /\ hoverGraphics' = {}
    /\ UNCHANGED <<storage, file>>

\* setupInput has run
InputReady == \A i \in 1..Len(tasks) : tasks[i].kind # "create"

StartupCells == {<<0, 0>>}

StCreateStep == \E i \in 1..Len(tasks) : create(i)
StFetchedStep ==
    \E i \in 1..Len(tasks) : \E outcome \in FetchOutcomes : oasisMapFetched(i, outcome)
StPlaceStep ==
    /\ Ready /\ InputReady
    /\ \E c \in StartupCells : LET p == PointerAt(c) IN placeTile(p.x, p.y)
StRemoveStep ==
    /\ Ready /\ InputReady
    /\ \E c \in StartupCells : LET p == PointerAt(c) IN removeTile(p.x, p.y)
StReloadStep == Ready /\ reloadPage

NextStartup ==
    \/ StCreateStep \/ StFetchedStep
    \/ StPlaceStep \/ StRemoveStep
    \/ autoSaveFired \/ StReloadStep

SpecStartup == InitStartup /\ [][NextStartup]_vars

(***************************************************************************)
(* Startup with a slot that is not JSON.                                   *)
(***************************************************************************)
Pending(ts, kind) == \E i \in 1..Len(ts) : ts[i].kind = kind

IsGrass(e) ==
    /\ e.tileName = "grass_02_11" /\ e.textureKey = "texture_floors"
    /\ e.layer = 0 /\ e.isAnchor /\ e.sprite # 0

\* C16: when create() finds a text in the auto-save slot that is not JSON,
\* the parse error is caught: the slot is removed, nothing on the map
\* changes and the bundled map is requested; when the answer arrives the
\* startup ends with the default map: the tiles of the bundled map if it was
\* delivered, and grass on every other cell of layer 0.  No startup ends
\* with an exception.
C16_UnparsableSlotFallsBack ==
    /\ [](last.op = "create" => last.ret # "threw")
    /\ [][(Pending(tasks, "create") /\ ~Pending(tasks', "create")
              /\ last'.op = "create" /\ SlotKind(storage) = "unparsable")
          => /\ last'.ret = "fetching"
             /\ storage' = None
             /\ Pending(tasks', "oasisFetch")
             /\ UNCHANGED <<cityMap, sprites, assetSets>>]_vars
    /\ [][(Pending(tasks, "oasisFetch") /\ ~Pending(tasks', "oasisFetch")
              /\ last'.op = "create" /\ last'.slot = "unparsable")
          => /\ last'.ret = "default"
             /\ storage' # Some(UnparsableText)
             /\ \A x, y \in 0..(gridSize' - 1) :
                    /\ MapHas(cityMap', <<x, y, 0>>)
                    /\ MapGet(cityMap', <<x, y, 0>>).sprite \in DOMAIN sprites'
             /\ last'.fetched = "ok" =>
                    \A i \in 1..Len(OasisDoc.tiles) :
                        LET tile == OasisDoc.tiles[i]
                            key == <<tile.x, tile.y, tile.layer>>
                        IN  /\ MapHas(cityMap', key)
                            /\ MapGet(cityMap', key).tileName = tile.tileName
             /\ \A i \in 1..Len(cityMap') :
                    \/ IsGrass(cityMap'[i])
                    \/ /\ last'.fetched = "ok"
                       /\ \E j \in 1..Len(OasisDoc.tiles) :
                              /\ OasisDoc.tiles[j].tileName = cityMap'[i].tileName
                              /\ cityMap'[i].key[3] = OasisDoc.tiles[j].layer
                    \/ /\ last'.fetched # "ok"
                       /\ \E j \in 1..Len(cityMap) : cityMap[j] = cityMap'[i]]_vars

\* the slot was not JSON, the bundled map was delivered: the map holds its
\* tile and grass on the three other cells, and the slot holds a document
C16_Witness ==
    /\ last.op = "create" /\ last.event = "fetched"
    /\ last.slot = "unparsable" /\ last.fetched = "ok"
    /\ Len(cityMap) = InitGridSize * InitGridSize
    /\ Cardinality({i \in 1..Len(cityMap) : IsGrass(cityMap[i])})
           = InitGridSize * InitGridSize - 1
    /\ storage # None /\ storage # Some(UnparsableText)

(***************************************************************************)
(* trimTransparentEdges(ctx, width, height)                                *)
(***************************************************************************)
AlphaThreshold == 10
TrimPadding == 2
\* images are at most this wide and this high
MaxSide == 3

\* the alpha channel of getImageData, row by row; the colour channels are
\* not read
PixelAlpha(data, width, x, y) == data[y * width + x + 1]

\* the two loops (y outer, x inner) from pixel n on
RECURSIVE ScanAlpha(_, _, _, _, _)
ScanAlpha(data, width, height, n, acc) ==
    IF n >= width * height THEN acc
    ELSE LET x == n % width
             y == n \div width
         IN  ScanAlpha(data, width, height, n + 1,
                 IF PixelAlpha(data, width, x, y) > AlphaThreshold
                 THEN [minX |-> Min(acc.minX, x), minY |-> Min(acc.minY, y),
                       maxX |-> Max(acc.maxX, x), maxY |-> Max(acc.maxY, y)]
                 ELSE acc)

trimTransparentEdges(data, width, height) ==
    LET found == ScanAlpha(data, width, height, 0,
                           [minX |-> width, minY |-> height,
                            maxX |-> 0, maxY |-> 0])
        minX == Max(0, found.minX - TrimPadding)
        minY == Max(0, found.minY - TrimPadding)
        maxX == Min(width - 1, found.maxX + TrimPadding)
        maxY == Min(height - 1, found.maxY + TrimPadding)
    IN  [x |-> minX, y |-> minY, width |-> maxX - minX + 1,
         height |-> maxY - minY + 1]

(***************************************************************************)
(* SpecTrim: trimTransparentEdges applied to every small image.            *)
(***************************************************************************)
\* a pixel outside the drawing has alpha 0 or just the threshold, a pixel
\* of the drawing has alpha just above the threshold or 255
AlphaOf(drawn, n) ==
    IF drawn THEN (IF n % 2 = 0 THEN AlphaThreshold + 1 ELSE 255)
    ELSE (IF n % 2 = 0 THEN 0 ELSE AlphaThreshold)

\* every image of at most side by side pixels
Canvases(side) ==
    UNION {{[width |-> w, height |-> h,
             data |-> [n \in 1..(w * h) |-> AlphaOf(n \in drawing, n)]] :
               drawing \in SUBSET (1..(w * h))} :
           w \in 1..side, h \in 1..side}

InitTrim ==
    /\ SceneCreated(InitGridSize)
    /\ \E c \in Canvases(MaxSide) : last = [op |-> "canvas", canvas |-> c]
    /\ nops = 0

trimStep ==
    /\ last.op = "canvas"
    /\ last' = [op |-> "trim", canvas |-> last.canvas,
                bounds |-> trimTransparentEdges(last.canvas.data,
                                                last.canvas.width,
                                                last.canvas.height)]
    /\ UNCHANGED <<scene, nops>>

NextTrim == trimStep

SpecTrim == InitTrim /\ [][NextTrim]_vars

(***************************************************************************)
(* Bounds of the drawing.                                                  *)
(***************************************************************************)
\* the pixels with alpha above the threshold
Drawn(c) ==
    {p \in (0..(c.width - 1)) \X (0..(c.height - 1)) :
        PixelAlpha(c.data, c.width, p[1], p[2]) > AlphaThreshold}

InsideCanvas(b, c) ==
    /\ 0 <= b.x /\ 0 <= b.y /\ b.width >= 1 /\ b.height >= 1
    /\ b.x + b.width <= c.width
    /\ b.y + b.height <= c.height

\* the smallest rectangle that holds every drawn pixel, grown by the
\* padding on each side and cut at the edges of the image
PaddedBox(b, c) ==
    LET xs == {p[1] : p \in Drawn(c)}
        ys == {p[2] : p \in Drawn(c)}
        right == b.x + b.width - 1
        bottom == b.y + b.height - 1
    IN  /\ \A x \in xs : b.x <= x - TrimPadding \/ b.x = 0
        /\ \E x \in xs : b.x = Max(0, x - TrimPadding)
        /\ \A y \in ys : b.y <= y - TrimPadding \/ b.y = 0
        /\ \E y \in ys : b.y = Max(0, y - TrimPadding)
        /\ \A x \in xs : right >= x + TrimPadding \/ right = c.width - 1
        /\ \E x \in xs : right = Min(c.width - 1, x + TrimPadding)
        /\ \A y \in ys : bottom >= y + TrimPadding \/ bottom = c.height - 1
        /\ \E y \in ys : bottom = Min(c.height - 1, y + TrimPadding)

\* the bounds of an image with a drawing on it
TrimOfDrawing ==
    (last.op = "trim" /\ Drawn(last.canvas) # {}) =>
        /\ PaddedBox(last.bounds, last.canvas)
        /\ InsideCanvas(last.bounds, last.canvas)

\* C17: trim returns the smallest rectangle holding every pixel with alpha
\* above 10, grown by 2 pixels on each side and cut at the image edges, so
\* that it has width and height of at least 1 and lies inside the image;
\* for an image without such a pixel it returns the whole image.
C17_TrimBounds ==
    last.op = "trim" =>
        /\ InsideCanvas(last.bounds, last.canvas)
        /\ IF Drawn(last.canvas) # {}
           THEN PaddedBox(last.bounds, last.canvas)
           ELSE last.bounds = [x |-> 0, y |-> 0, width |-> last.canvas.width,
                               height |-> last.canvas.height]

(***************************************************************************)
(* The texture swap of appendSprite and removeFrame.                       *)
(***************************************************************************)
\* the new sheet of set a is being decoded by one of the given steps
ReplacementDecoding(a, kinds) ==
    \E i \in 1..Len(tasks) : tasks[i].kind \in kinds /\ tasks[i].oid = a.oid

\* the old sheet of set a and the drawables of its placed tiles are there
OldSheetInUse(a) ==
    /\ a.textureKey \in DOMAIN textures
    /\ \A i \in 1..Len(cityMap) :
           (cityMap[i].textureKey = a.textureKey /\ cityMap[i].isAnchor)
               => cityMap[i].sprite \in DOMAIN sprites

\* while appendSprite decodes the combined sheet the old one stays in use
AppendKeepsOldSheet ==
    \A i \in 1..Len(assetSets) :
        ReplacementDecoding(assetSets[i], {"appendDecode", "appendCombined"})
            => OldSheetInUse(assetSets[i])

\* C18: while the new atlas image of a registered asset set is decoding, in
\* appendSprite and in removeFrame, the old atlas texture has not been
\* removed and no drawable of a placed tile that uses it has been destroyed.
C18_DecodeBeforeSwap ==
    \A i \in 1..Len(assetSets) :
        ReplacementDecoding(assetSets[i], {"appendDecode", "appendCombined",
                                           "removeFrameLoad"})
            => OldSheetInUse(assetSets[i])

\* the combined sheet of an appendSprite has decoded and the swap is done,
\* the set being registered
AppendCompletes ==
    /\ Len(tasks') < Len(tasks)
    /\ last'.op = "appendSprite" /\ last'.ret = "true" /\ last'.event = "onload"
    /\ MapHas(assetSets, last'.id) /\ MapHas(assetSets', last'.id)

WithoutSprite(e) == [e EXCEPT !.sprite = 0]

NextImportOrder ==
    \/ AsImportStep \/ ImportLoadedStep \/ ImportFailedStep
    \/ AsAddStep \/ AssetLoadedStep \/ AssetFailedStep

SpecImportOrder == Init /\ [][NextImportOrder]_vars

(***************************************************************************)
(* The custom assets of an import.                                         *)
(***************************************************************************)
ImportTasks(ts) == {i \in 1..Len(ts) : ts[i].kind = "loadMapAsset"}

\* the custom asset has its texture with its frames and its asset set
AssetRegistered(customAsset, sets, tx) ==
    /\ MapHas(sets, customAsset.id)
    /\ MapGet(sets, customAsset.id).sprites = customAsset.sprites
    /\ TextureKeyOf(customAsset.id) \in DOMAIN tx
    /\ tx[TextureKeyOf(customAsset.id)] =
           Texture(customAsset.imageDataUrl, customAsset.sprites)

\* C20: the custom assets of an import are decoded one after the other in
\* the order of the document: an import has at most one decode in flight;
\* when the decode of asset k starts, the assets before k are registered
\* with texture, frames and asset set; a callback after which the import
\* still waits creates no tile; and when the tiles of the document are
\* created every custom asset of the document is registered.
C20_ImportAssetsInOrder ==
    /\ [](\A i, j \in ImportTasks(tasks) :
              i # j => tasks[i].before # tasks[j].before)
    /\ [][/\ \A i \in ImportTasks(tasks') :
                 (\A j \in ImportTasks(tasks) : tasks[j] # tasks'[i])
                     => \A k \in 1..(tasks'[i].index - 1) :
                            AssetRegistered(tasks'[i].doc.customAssets[k],
                                            assetSets', textures')
          /\ (last'.op = "loadMap" /\ last'.ret = "awaiting"
                  /\ last'.event = "onload" /\ Len(tasks') = Len(tasks))
                 => UNCHANGED <<cityMap, sprites>>
          /\ (last'.op = "loadMap" /\ last'.ret = "loaded" /\ last' # last)
                 => \A k \in 1..Len(last'.doc.customAssets) :
                        AssetRegistered(last'.doc.customAssets[k],
                                        assetSets', textures')]_vars

\* the import of a document with two custom assets has created its tiles
C20_Witness ==
    /\ last.op = "loadMap" /\ last.ret = "loaded" /\ last.event = "onload"
    /\ last.doc = TwoAssetDoc
    /\ Len(cityMap) = 2
    /\ MapHas(assetSets, "c2") /\ MapHas(assetSets, "c3")

(***************************************************************************)
(* SpecExport: a map built by placements and removals on two layers is     *)
(* exported and auto-saved.                                                *)
(***************************************************************************)
ExExportStep == Ready /\ exportMap

NextExport ==
    \/ SvSelectStep \/ SvPlaceStep \/ SvRemoveStep \/ LayerStep
    \/ ExExportStep \/ autoSaveFired

SpecExport == Init /\ [][NextExport]_vars

\* the tile records of a document are those of the anchor entries of a map:
\* as many records as anchors, for every anchor one record with its cell,
\* layer, frame name and texture, and no record for any other cell
TilesOfAnchors(doc, m) ==
    LET anchors == {i \in 1..Len(m) : m[i].isAnchor}
        records == 1..Len(doc.tiles)
        At(k) == <<doc.tiles[k].x, doc.tiles[k].y, doc.tiles[k].layer>>
    IN  /\ Len(doc.tiles) = Cardinality(anchors)
        /\ \A i \in anchors :
               /\ Cardinality({k \in records : At(k) = m[i].key}) = 1
               /\ \A k \in records :
                      At(k) = m[i].key =>
                          /\ doc.tiles[k].tileName = m[i].tileName
                          /\ doc.tiles[k].textureKey = m[i].textureKey
        /\ \A k \in records : \E i \in anchors : At(k) = m[i].key

\* C21: export, and the auto-save that writes the same document, emit one
\* tile record for every entry of the map that is an anchor and none for a
\* satellite entry; the record carries the anchor's own x, y and layer, its
\* frame name and its texture; there are as many records as anchors.
C21_ExportOneRecordPerAnchor ==
    [][/\ (last'.op = "exportMap" /\ nops' = nops + 1)
              => (file' # None /\ TilesOfAnchors(file'[1], cityMap'))
       /\ storage' # storage
              => (storage' # None /\ TilesOfAnchors(storage'[1], cityMap'))]_vars

\* the exported map holds a two-cell tile on the highest layer, of which
\* one cell is a satellite
C21_Witness ==
    /\ last.op = "exportMap" /\ file # None
    /\ Len(file[1].tiles) = 1
    /\ Len(cityMap) = 2
    /\ \E i \in 1..Len(cityMap) : ~cityMap[i].isAnchor
    /\ file[1].tiles[1].layer = MaxLayer

(***************************************************************************)
(* SpecLayer: setLayer with layers below, inside and above the range, next *)
(* to selection, placement and removal.                                    *)
(***************************************************************************)
LayerValues == (-2)..(MaxLayer + 2)

LyLayerStep == Ready /\ \E l \in LayerValues : setLayer(l)

NextLayer == SvSelectStep \/ SvPlaceStep \/ SvRemoveStep \/ LyLayerStep

SpecLayer == Init /\ [][NextLayer]_vars

\* C22: setLayer(n) clamps to [0, 10]: the current layer afterwards is 0 for
\* n below 0, 10 for n above 10 and n otherwise; setLayer changes neither
\* the map nor the selection; so the current layer, and the layer of every
\* key of the map, is in 0..10 at all times.
C22_LayerClamped ==
    /\ [](/\ currentLayer \in 0..10
          /\ \A i \in 1..Len(cityMap) : cityMap[i].key[3] \in 0..10)
    /\ [][(last'.op = "setLayer" /\ nops' = nops + 1) =>
              /\ currentLayer' = IF last'.layer < 0 THEN 0
                                 ELSE IF last'.layer > 10 THEN 10
                                 ELSE last'.layer
              /\ UNCHANGED <<cityMap, sprites, selectedAssetSetId,
                             selectedSpriteIndex>>]_vars

\* setLayer with a layer above the range, on a map with a tile placed on a
\* layer inside the range
C22_Witness ==
    /\ last.op = "setLayer" /\ last.layer = MaxLayer + 2
    /\ currentLayer = MaxLayer
    /\ \E i \in 1..Len(cityMap) : cityMap[i].key[3] = 5

(***************************************************************************)
(* SpecOverlap: tiles of one and of four cells placed over each other and  *)
(* removed.                                                                *)
(***************************************************************************)
\* calls dispatched in a run of this specification
MaxOverlapOps == 5

OverlapReady == nops < MaxOverlapOps
OverlapSelectInputs == {<<0, "tiles">>, <<1, "tiles">>}
OverlapCells == {<<0, 0>>, <<1, 0>>}

OvSelectStep ==
    /\ OverlapReady
    /\ \E s \in OverlapSelectInputs : setSelectedTile(s[1], s[2])
OvPlaceStep ==
    /\ OverlapReady
    /\ \E c \in OverlapCells : LET p == PointerAt(c) IN placeTile(p.x, p.y)
OvRemoveStep ==
    /\ OverlapReady
    /\ \E c \in OverlapCells : LET p == PointerAt(c) IN removeTile(p.x, p.y)

NextOverlap == OvSelectStep \/ OvPlaceStep \/ OvRemoveStep

SpecOverlap == Init /\ [][NextOverlap]_vars

(***************************************************************************)
(* Drawables and the anchors that own them.                                *)
(***************************************************************************)
Anchors(m) == {i \in 1..Len(m) : m[i].isAnchor}

\* the drawables of tiles: every live drawable but the hover preview
TileDrawables == DOMAIN sprites \ {hoverSprite}

\* every anchor entry owns a live drawable, and no two own the same one
AnchorsOwnDrawables ==
    /\ \A i \in Anchors(cityMap) : cityMap[i].sprite \in TileDrawables
    /\ \A i, j \in Anchors(cityMap) :
           cityMap[i].sprite = cityMap[j].sprite => i = j

\* C23: after any sequence of place and remove, every anchor entry of the
\* map owns exactly one live drawable and every live tile drawable is owned
\* by exactly one anchor entry: no drawable is on screen without a record
\* and no record points to a destroyed drawable.
C23_DrawablesMatchAnchors ==
    /\ AnchorsOwnDrawables
    /\ \A id \in TileDrawables :
           \E i \in Anchors(cityMap) : cityMap[i].sprite = id

(***************************************************************************)
(* What a remove deletes.                                                  *)
(***************************************************************************)
\* the key of the anchor of the sprite an entry belongs to
OwnerKey(e) == IF e.isAnchor THEN e.key ELSE e.anchorKey[1]

\* C24: remove on a cell that is inside the grid and occupied leaves the
\* cell unoccupied; every entry it deletes belongs to the sprite that
\* occupied the cell, and it destroys no drawable of another sprite.
C24_RemoveOnlyOwnSprite ==
    [][(last'.op = "remove" /\ nops' = nops + 1
            /\ MapHas(cityMap, <<last'.x, last'.y, last'.layer>>)
            /\ last'.x \in 0..(gridSize - 1) /\ last'.y \in 0..(gridSize - 1))
        => LET key == <<last'.x, last'.y, last'.layer>>
               clicked == MapGet(cityMap, key)
           IN  /\ ~MapHas(cityMap', key)
               /\ \A i \in 1..Len(cityMap) :
                      ~MapHas(cityMap', cityMap[i].key)
                          => OwnerKey(cityMap[i]) = OwnerKey(clicked)
               /\ \A i \in Anchors(cityMap) :
                      cityMap[i].sprite \notin DOMAIN sprites'
                          => cityMap[i].key = OwnerKey(clicked)]_vars

(***************************************************************************)
(* SpecFrameRace: tiles are placed and removed while the repacked sheet of *)
(* a removeFrame is being decoded.                                         *)
(***************************************************************************)
FrameRaceSelectInputs == {<<0, "c1">>, <<1, "c1">>}
FrameRaceFrames == {<<"c1", 0>>, <<"c1", 1>>}

FrSelectStep ==
    /\ Ready
    /\ \E s \in FrameRaceSelectInputs : setSelectedTile(s[1], s[2])
FrPlaceStep ==
    /\ Ready
    /\ \E c \in SaveCells : LET p == PointerAt(c) IN placeTile(p.x, p.y)
FrRemoveStep ==
    /\ Ready
    /\ \E c \in SaveCells : LET p == PointerAt(c) IN removeTile(p.x, p.y)
FrRemoveFrameStep ==
    /\ Ready /\ CanDecode
    /\ \E a \in FrameRaceFrames :
           /\ NoPendingEdit(a[1])
           /\ phaserRemoveSpriteFromAsset(a[1], a[2])

NextFrameRace ==
    \/ FrSelectStep \/ FrPlaceStep \/ FrRemoveStep \/ FrRemoveFrameStep
    \/ FrameLoadedStep

SpecFrameRace == Init /\ [][NextFrameRace]_vars

\* the image callback of a removeFrame runs
RemoveFrameDecoded ==
    /\ Len(tasks') < Len(tasks)
    /\ last'.op = "removeFrame" /\ last'.event = "onload"

\* C25: for place and remove dispatched between the teardown of removeFrame
\* and the decode of the repacked image: no call reads a drawable that is
\* null; when the decode completes every anchor entry of the atlas owns a
\* live drawable that shows its own frame; every drawable the callback
\* creates is owned by an anchor entry that was waiting for it; and no
\* drawable that an entry owned before the callback is replaced.
C25_PlaceDuringRemoveFrame ==
    /\ [](last.op = "place" => last.ret # "threw")
    /\ [][RemoveFrameDecoded =>
            LET textureKey == TextureKeyOf(last'.id)
                created == DOMAIN sprites' \ DOMAIN sprites
            IN  /\ \A i \in Anchors(cityMap') :
                       cityMap'[i].textureKey = textureKey =>
                           /\ cityMap'[i].sprite \in DOMAIN sprites'
                           /\ sprites'[cityMap'[i].sprite].frame
                                  = cityMap'[i].tileName
                /\ \A id \in created :
                       \E i \in Anchors(cityMap') :
                           /\ cityMap'[i].sprite = id
                           /\ MapHas(cityMap, cityMap'[i].key)
                           /\ MapGet(cityMap, cityMap'[i].key).sprite = 0
                /\ \A i \in Anchors(cityMap) :
                       cityMap[i].sprite # 0 =>
                           /\ MapHas(cityMap', cityMap[i].key)
                           /\ MapGet(cityMap', cityMap[i].key).sprite
                                  = cityMap[i].sprite]_vars

(***************************************************************************)
(* SpecReAdd: a custom asset set is removed and a set with the same id, or *)
(* with another id, is created, with the delayed removal of the texture.   *)
(***************************************************************************)
ReAddIds == {"c1", "c2"}

ReAddStep ==
    /\ Ready /\ CanDecode
    /\ \E id \in ReAddIds, img \in AddInputs :
           phaserAddCustomAsset(id, img, HutSprites)

NextReAdd ==
    \/ AsSelectStep \/ AsPlaceStep \/ AsRemoveAssetStep \/ ReAddStep
    \/ AssetLoadedStep \/ AssetFailedStep \/ removeTextureFired

SpecReAdd == Init /\ [][NextReAdd]_vars

\* C28: whenever an asset set is registered its atlas texture exists, also
\* when a custom set is removed and a set with the same id is created
\* before the delayed removal of the first set's texture has fired.
C28_RegisteredSetHasTexture ==
    \A i \in 1..Len(assetSets) : assetSets[i].textureKey \in DOMAIN textures

(***************************************************************************)
(* SpecImportRace: tiles are placed and removed while an import waits for  *)
(* the image of a custom asset.                                            *)
(***************************************************************************)
RaceDocs == {BrokenDoc, TwoAssetDoc}

IrImportStep == Ready /\ CanDecode /\ \E doc \in RaceDocs : loadMap(doc)

NextImportRace ==
    \/ SvSelectStep \/ SvPlaceStep \/ SvRemoveStep \/ IrImportStep
    \/ ImportLoadedStep \/ ImportFailedStep

SpecImportRace == Init /\ [][NextImportRace]_vars

\* an import that waited for an image has created its tiles
ImportCompletes ==
    /\ last'.op = "loadMap" /\ last'.ret = "loaded" /\ last'.event = "onload"
    /\ Len(tasks') < Len(tasks)

\* C29: when an import completes during whose wait for an image tiles were
\* placed and removed, the map holds the tiles of the document, every
\* anchor entry owns a live drawable of its own, and every live tile
\* drawable, those of the tiles placed in between included, is owned by an
\* anchor entry.
C29_ImportWithInterleavedPlace ==
    [][ImportCompletes =>
        /\ \A k \in 1..Len(last'.doc.tiles) :
               LET tile == last'.doc.tiles[k]
                   key == <<tile.x, tile.y, tile.layer>>
               IN  /\ MapHas(cityMap', key)
                   /\ MapGet(cityMap', key).isAnchor
                   /\ MapGet(cityMap', key).tileName = tile.tileName
        /\ \A i \in Anchors(cityMap') : cityMap'[i].sprite \in DOMAIN sprites'
        /\ \A i, j \in Anchors(cityMap') :
               cityMap'[i].sprite = cityMap'[j].sprite => i = j
        /\ \A id \in DOMAIN sprites' \ {hoverSprite'} :
               \E i \in Anchors(cityMap') : cityMap'[i].sprite = id]_vars

(***************************************************************************)
(* SpecResize: tiles are placed and removed while the grid is grown and    *)
(* shrunk by the two buttons of the toolbar.                               *)
(***************************************************************************)
\* the first cell and the first cell beyond the smallest grid
ResizeCells == {<<0, 0>>, <<MinGridSize, 0>>}

RzPlaceStep ==
    /\ Ready
    /\ \E c \in ResizeCells : LET p == PointerAt(c) IN placeTile(p.x, p.y)
RzRemoveStep ==
    /\ Ready
    /\ \E c \in ResizeCells : LET p == PointerAt(c) IN removeTile(p.x, p.y)

NextResize == SvSelectStep \/ RzPlaceStep \/ RzRemoveStep \/ SvExpandStep

SpecResize == Init /\ [][NextResize]_vars

\* C30: after any sequence of place, remove and grid resize every key
\* (x, y, layer) of the map lies inside the grid: 0 <= x < gridSize and
\* 0 <= y < gridSize.
C30_KeysInsideGrid ==
    \A i \in 1..Len(cityMap) : InGrid(cityMap[i].key[1], cityMap[i].key[2])

(***************************************************************************)
(* SpecAppendRace: sprites are appended to one asset set while an earlier  *)
(* append to it is still waiting for an image.                             *)
(***************************************************************************)
\* appends waiting for an image at a time
MaxAppends == 2
KioskSprite == Frame("kiosk", 0, 0, 1, 3, None, None)
KioskImage == Image(1, 3)
RaceAppendInputs == {<<ShedImage, ShedSprite>>, <<KioskImage, KioskSprite>>}

ApAppendStep ==
    /\ Ready /\ Len(tasks) < MaxAppends
    /\ \E a \in RaceAppendInputs : phaserAddSpriteToAsset("c1", a[1], a[2])

NextAppendRace ==
    \/ AsSelectStep \/ AsPlaceStep \/ ApAppendStep
    \/ AppendDecodedStep \/ AppendCombinedStep

SpecAppendRace == Init /\ [][NextAppendRace]_vars

RectsOverlap(a, b) ==
    /\ a.x < b.x + b.width /\ b.x < a.x + a.width
    /\ a.y < b.y + b.height /\ b.y < a.y + a.height

RectInside(a, image) ==
    /\ a.x >= 0 /\ a.y >= 0
    /\ a.x + a.width <= image.width /\ a.y + a.height <= image.height

\* C26: once appendSprite calls on one asset set whose image decodes
\* overlapped have all completed, every appended frame is registered in the
\* set and in its texture, and the rectangles of the set's frames are
\* pairwise non-overlapping and lie inside the final image.
C26_OverlappingAppends ==
    tasks = <<>> =>
        \A i \in 1..Len(assetSets) :
            LET set == assetSets[i]
                sprs == set.sprites
            IN  set.isCustom =>
                    /\ \A a \in 1..Len(sprs) :
                           /\ RectInside(sprs[a], set.imageDataUrl[1])
                           /\ \E f \in TexGet(textures, set.textureKey).frames :
                                  /\ f.name = sprs[a].name
                                  /\ f.x = sprs[a].x /\ f.y = sprs[a].y
                           /\ \A b \in 1..Len(sprs) :
                                  a # b => ~RectsOverlap(sprs[a], sprs[b])
                    /\ TexGet(textures, set.textureKey).image = set.imageDataUrl[1]

(***************************************************************************)
(* SpecEmitRace: the document is exported and auto-saved while a frame     *)
(* removal or an append waits for an image.                                *)
(***************************************************************************)
\* an atlas whose three frames lie side by side
RowSprites ==
    << Frame("inn", 0, 0, 2, 2, None, None), Frame("mill", 2, 0, 2, 2, None, None),
       Frame("well", 4, 0, 2, 2, None, None) >>
RowImage == Image(6, 2)
EmitFrames == {<<"c1", 0>>, <<"c2", 0>>}

EmAddStep == Ready /\ CanDecode /\ phaserAddCustomAsset("c2", RowImage, RowSprites)
EmRemoveFrameStep ==
    /\ Ready /\ CanDecode
    /\ \E a \in EmitFrames :
           /\ MapHas(assetSets, a[1]) /\ NoPendingEdit(a[1])
           /\ phaserRemoveSpriteFromAsset(a[1], a[2])
EmAppendStep ==
    /\ Ready /\ CanDecode /\ NoPendingEdit("c1")
    /\ phaserAddSpriteToAsset("c1", ShedImage, ShedSprite)

NextEmitRace ==
    \/ AsPlaceStep \/ EmAddStep \/ EmRemoveFrameStep \/ EmAppendStep
    \/ ExExportStep \/ autoSaveFired
    \/ AssetLoadedStep \/ FrameLoadedStep
    \/ AppendDecodedStep \/ AppendCombinedStep

SpecEmitRace == Init /\ [][NextEmitRace]_vars

FramesInsideImage(doc) ==
    \A i \in 1..Len(doc.customAssets) :
        \A k \in 1..Len(doc.customAssets[i].sprites) :
            RectInside(doc.customAssets[i].sprites[k],
                       doc.customAssets[i].imageDataUrl)

\* C27: in every document an export or a save has emitted, also one emitted
\* while a removeFrame or an appendSprite waited for an image, every frame
\* rectangle of a custom asset lies within the image emitted with it.
C27_EmittedFramesInsideImage ==
    /\ file # None => FramesInsideImage(file[1])
    /\ storage # None => FramesInsideImage(storage[1])

====
